---- MODULE Spec2Model ----
(***************************************************************************)
(* Model of the construct extraction and merge engine of cesium's          *)
(* documentation backend (src/src/backend/doc/cpp/ast_extractor.cpp).      *)
(*                                                                         *)
(* Strings are sequences of one-character strings; positions are 0-based   *)
(* as in std::string, and Npos stands for std::string::npos.               *)
(* std::optional<T> is a sequence of length 0 (nullopt) or 1 (the value).  *)
(***************************************************************************)
EXTENDS Integers, Sequences, FiniteSets, TLC

VARIABLES
  phase,           \* position of the modelled call
  constructs,      \* std::vector<CodeConstruct> being filled, then merged in place
  input,           \* the vector as it was handed to mergeDuplicateConstructs
  conflicts,       \* return value of mergeDuplicateConstructs
  tree,            \* the parsed tree: node id -> type, byte span, rows, parent, children
  content,         \* the source text the tree was parsed from
  filename,        \* the name of the source file
  stack,           \* pending extractFromNode calls: <<node, namespace_path>>, innermost first
  test_input,      \* the declarator text handed to extractFunctionNameFromText
  result,          \* the string the function applied returned
  docstring_blocks, \* std::vector<DocstringBlock> of the file being documented
  all_constructs,  \* the constructs of the files of a run, as handed to the renderer
  files,           \* the files of the run not yet visited
  directory,       \* the files of the source directory, in the order they are listed
  run,             \* the number of the run of the extractor
  cache            \* the CacheEntry of the DocumentationCache

mergeVars == <<constructs, input, conflicts>>
treeVars == <<tree, content, filename, stack>>
nameVars == <<test_input, result>>
docVars == <<docstring_blocks>>
runVars == <<all_constructs, files, directory, run, cache>>
vars == <<phase, mergeVars, treeVars, nameVars, docVars, runVars>>

---------------------------------------------------------------------------
(* std::string primitives *)

Npos == -1

Min(a, b) == IF a < b THEN a ELSE b

\* s.substr(pos, n)
Substr(s, pos, n) == SubSeq(s, pos + 1, Min(pos + n, Len(s)))

\* s.substr(pos)
SubstrFrom(s, pos) == SubSeq(s, pos + 1, Len(s))

MatchAt(s, pat, i) ==
  /\ i >= 0
  /\ i + Len(pat) <= Len(s)
  /\ \A k \in 1..Len(pat) : s[i + k] = pat[k]

\* s.find(pat, from)
Find(s, pat, from) ==
  LET hits == {i \in from..(Len(s) - Len(pat)) : MatchAt(s, pat, i)}
  IN  IF hits = {} THEN Npos ELSE CHOOSE i \in hits : \A j \in hits : i <= j

\* s.rfind(pat)
RFind(s, pat) ==
  LET hits == {i \in 0..(Len(s) - Len(pat)) : MatchAt(s, pat, i)}
  IN  IF hits = {} THEN Npos ELSE CHOOSE i \in hits : \A j \in hits : i >= j

\* bytes 32..95
AsciiLow ==
  << " ", "!", "\"", "#", "$", "%", "&", "'", "(", ")", "*", "+", ",", "-", ".", "/",
     "0", "1", "2", "3", "4", "5", "6", "7", "8", "9", ":", ";", "<", "=", ">", "?",
     "@", "A", "B", "C", "D", "E", "F", "G", "H", "I", "J", "K", "L", "M", "N", "O",
     "P", "Q", "R", "S", "T", "U", "V", "W", "X", "Y", "Z", "[", "\\", "]", "^", "_" >>

\* bytes 97..126
AsciiHigh ==
  << "a", "b", "c", "d", "e", "f", "g", "h", "i", "j", "k", "l", "m", "n", "o",
     "p", "q", "r", "s", "t", "u", "v", "w", "x", "y", "z", "{", "|", "}", "~" >>

\* bytes above 127, as they occur in UTF-8 text (here the two bytes of U+00E9)
HighBytes == {"0xC3", "0xA9"}

\* the byte value of a character
Ord(c) ==
  IF c = "\n" THEN 10
  ELSE IF c = "0xC3" THEN 195
  ELSE IF c = "0xA9" THEN 169
  ELSE IF \E i \in DOMAIN AsciiHigh : AsciiHigh[i] = c
       THEN 96 + (CHOOSE i \in DOMAIN AsciiHigh : AsciiHigh[i] = c)
       ELSE 31 + (CHOOSE i \in DOMAIN AsciiLow : AsciiLow[i] = c)

\* std::string operator< : lexicographic on bytes, a proper prefix is smaller
RECURSIVE StrLess(_, _)
StrLess(a, b) ==
  IF b = <<>> THEN FALSE
  ELSE IF a = <<>> THEN TRUE
  ELSE IF Head(a) = Head(b) THEN StrLess(Tail(a), Tail(b))
  ELSE Ord(Head(a)) < Ord(Head(b))

Digits == <<"0", "1", "2", "3", "4", "5", "6", "7", "8", "9">>

\* std::to_string(n) for an unsigned n
RECURSIVE ToStdString(_)
ToStdString(n) ==
  IF n < 10 THEN <<Digits[n + 1]>>
  ELSE ToStdString(n \div 10) \o <<Digits[(n % 10) + 1]>>

---------------------------------------------------------------------------
(* Name recovery from text *)

\* std::isspace in the "C" locale
IsSpace(c) == c \in {" ", "\t", "\n", "\r", "\f"}

\* std::isalnum in the "C" locale
IsAlnum(c) ==
  \/ \E i \in DOMAIN AsciiHigh : i <= 26 /\ AsciiHigh[i] = c
  \/ \E i \in DOMAIN AsciiLow : AsciiLow[i] = c /\ (i \in 17..26 \/ i \in 34..59)

\* while (!s.empty() && std::isspace(s.back())) s.pop_back();
RECURSIVE TrimRight(_)
TrimRight(s) ==
  IF s # <<>> /\ IsSpace(s[Len(s)])
  THEN TrimRight(SubSeq(s, 1, Len(s) - 1))
  ELSE s

\* while (pos > 0 && (std::isalnum(s[pos - 1]) || s[pos - 1] is in extra)) pos--;
RECURSIVE ScanBackIdentifier(_, _, _)
ScanBackIdentifier(s, pos, extra) ==
  IF pos > 0 /\ (IsAlnum(s[pos]) \/ s[pos] \in extra)
  THEN ScanBackIdentifier(s, pos - 1, extra)
  ELSE pos

\* while (pos > 0 && std::isspace(s[pos - 1])) pos--;
RECURSIVE ScanBackSpace(_, _)
ScanBackSpace(s, pos) ==
  IF pos > 0 /\ IsSpace(s[pos]) THEN ScanBackSpace(s, pos - 1) ELSE pos

\* while (pos < s.length() && std::isspace(s[pos])) pos++;
RECURSIVE SkipSpace(_, _)
SkipSpace(s, pos) ==
  IF pos < Len(s) /\ IsSpace(s[pos + 1]) THEN SkipSpace(s, pos + 1) ELSE pos

Contains(s, pat) == Find(s, pat, 0) # Npos

ScopeSep == <<":", ":">>
OperatorKw == <<"o", "p", "e", "r", "a", "t", "o", "r">>
\* the length of "operator" the code adds to op_pos
OperatorKwLen == 8

extractFunctionNameFromText(declarator_text) ==
  LET paren_pos == Find(declarator_text, <<"(">>, 0)
      before_paren == TrimRight(Substr(declarator_text, 0, paren_pos))
      op_pos == Find(before_paren, OperatorKw, 0)
      op_name == SubstrFrom(before_paren, op_pos)
      symbol_start == SkipSpace(before_paren, op_pos + OperatorKwLen)
      start_pos == ScanBackIdentifier(before_paren, Len(before_paren), {"_", "~"})
  IN  IF paren_pos = Npos THEN <<>>
      ELSE IF Contains(before_paren, ScopeSep) THEN before_paren
      ELSE IF op_pos # Npos /\ op_name # <<>> /\ op_name # OperatorKw THEN op_name
      ELSE IF /\ op_pos # Npos
              /\ op_name = OperatorKw
              /\ op_pos + OperatorKwLen < Len(before_paren)
              /\ symbol_start < Len(before_paren)
      THEN OperatorKw \o SubstrFrom(before_paren, symbol_start)
      ELSE IF start_pos < Len(before_paren)
      THEN Substr(before_paren, start_pos, Len(before_paren) - start_pos)
      ELSE <<>>

\* the characters TrimRight hands to std::isspace: the trailing whitespace and
\* the character that ends the loop
TrimRightArguments(s) ==
  {s[k] : k \in {j \in 1..Len(s) : j >= Len(TrimRight(s))}}

\* the characters ScanBackIdentifier hands to std::isalnum
ScanBackIdentifierArguments(s, pos, extra) ==
  {s[k] : k \in {j \in 1..pos : j >= ScanBackIdentifier(s, pos, extra)}}

\* the characters ScanBackSpace hands to std::isspace
ScanBackSpaceArguments(s, pos) ==
  {s[k] : k \in {j \in 1..pos : j >= ScanBackSpace(s, pos)}}

\* the characters extractFunctionNameFromText hands to std::isspace and
\* std::isalnum
CtypeArgumentsOfNameFromText(declarator_text) ==
  LET paren_pos == Find(declarator_text, <<"(">>, 0)
      untrimmed == Substr(declarator_text, 0, paren_pos)
      before_paren == TrimRight(untrimmed)
      op_pos == Find(before_paren, OperatorKw, 0)
  IN  IF paren_pos = Npos THEN {}
      ELSE IF Contains(before_paren, ScopeSep) THEN TrimRightArguments(untrimmed)
      ELSE IF op_pos # Npos /\ SubstrFrom(before_paren, op_pos) # OperatorKw
      THEN TrimRightArguments(untrimmed)
      ELSE TrimRightArguments(untrimmed)
           \cup ScanBackIdentifierArguments(before_paren, Len(before_paren), {"_", "~"})

\* the characters the operator fallback of extractFunction hands to std::isspace
CtypeArgumentsOfOperatorDecl(text) ==
  LET op_pos == Find(text, OperatorKw, 0)
      paren_pos == Find(text, <<"(">>, op_pos)
  IN  IF op_pos = Npos \/ paren_pos = Npos THEN {}
      ELSE TrimRightArguments(Substr(text, op_pos, paren_pos - op_pos))

\* the characters the last fallback of extractFunction hands to std::isspace
\* and std::isalnum
CtypeArgumentsOfFunctionText(func_text) ==
  LET paren_pos == Find(func_text, <<"(">>, 0)
      name_end == ScanBackSpace(func_text, paren_pos)
      name_start == ScanBackIdentifier(func_text, name_end, {"_", "~"})
  IN  IF Contains(func_text, OperatorKw) THEN CtypeArgumentsOfOperatorDecl(func_text)
      ELSE IF paren_pos = Npos THEN {}
      ELSE ScanBackSpaceArguments(func_text, paren_pos)
           \cup ScanBackIdentifierArguments(func_text, name_end, {"_", "~"})
           \cup (IF /\ name_start < name_end
                    /\ name_start >= 2
                    /\ Substr(func_text, name_start - 2, 2) = ScopeSep
                 THEN ScanBackIdentifierArguments(func_text, name_start - 2, {"_"})
                 ELSE {})

\* the characters findMethodName hands to std::isspace and std::isalnum
CtypeArgumentsOfMethodName(full_text) ==
  LET paren_pos == Find(full_text, <<"(">>, 0)
      before_paren == Substr(full_text, 0, paren_pos)
      trimmed == TrimRight(before_paren)
  IN  IF paren_pos = Npos THEN {}
      ELSE IF Contains(before_paren, <<"~">>) \/ Contains(before_paren, OperatorKw) THEN {}
      ELSE TrimRightArguments(before_paren)
           \cup ScanBackIdentifierArguments(trimmed, Len(trimmed), {"_"})

\* findMethodName applied to the text of the declarator node
findMethodNameInText(full_text) ==
  LET paren_pos == Find(full_text, <<"(">>, 0)
      before_paren == Substr(full_text, 0, paren_pos)
      trimmed == TrimRight(before_paren)
      start_pos == ScanBackIdentifier(trimmed, Len(trimmed), {"_"})
  IN  IF paren_pos = Npos THEN <<>>
      ELSE IF Contains(before_paren, <<"~">>)
      THEN SubstrFrom(before_paren, Find(before_paren, <<"~">>, 0))
      ELSE IF Contains(before_paren, OperatorKw)
      THEN SubstrFrom(before_paren, Find(before_paren, OperatorKw, 0))
      ELSE IF trimmed = <<>> THEN <<>>
      ELSE IF start_pos < Len(trimmed)
      THEN Substr(trimmed, start_pos, Len(trimmed) - start_pos)
      ELSE <<>>

---------------------------------------------------------------------------
(* The tree-sitter node interface: a node is its index in tree, 0 is the   *)
(* null node                                                               *)

NullNode == 0

NodeType(node) == tree[node].type

\* ts_node_child_count
ChildCount(node) == Len(tree[node].children)

\* ts_node_child(node, i), i counted from 0
Child(node, i) ==
  IF i < ChildCount(node) THEN tree[node].children[i + 1] ELSE NullNode

getNodeText(node) ==
  LET start == tree[node].start_byte
      end == Min(tree[node].end_byte, Len(content))
  IN  Substr(content, start, end - start)

findChildByType(parent, type) ==
  LET hits == {i \in 0..(ChildCount(parent) - 1) : NodeType(Child(parent, i)) = type}
  IN  IF hits = {} THEN NullNode
      ELSE Child(parent, CHOOSE i \in hits : \A j \in hits : i <= j)

\* namespace_path.empty() ? name : namespace_path + "::" + name
Qualify(namespace_path, name) ==
  IF namespace_path = <<>> THEN name ELSE namespace_path \o ScopeSep \o name

---------------------------------------------------------------------------
(* Field extraction *)

ReturnTypeTags ==
  {"primitive_type", "type_identifier", "qualified_identifier", "template_type"}

\* the loop of extractReturnType from child i on
RECURSIVE ReturnTypeFrom(_, _)
ReturnTypeFrom(function_node, i) ==
  IF i >= ChildCount(function_node) THEN <<"v", "o", "i", "d">>
  ELSE LET child == Child(function_node, i)
       IN  IF NodeType(child) \in ReturnTypeTags THEN getNodeText(child)
           ELSE IF NodeType(child) = "function_declarator" THEN <<"v", "o", "i", "d">>
           ELSE ReturnTypeFrom(function_node, i + 1)

\* faulty variant: the first child is taken as the type whatever its tag
extractReturnTypeFirstChild(function_node) ==
  IF ChildCount(function_node) = 0 THEN <<"v", "o", "i", "d">>
  ELSE getNodeText(Child(function_node, 0))

extractReturnType(function_node) == ReturnTypeFrom(function_node, 0)

RECURSIVE extractTypeName(_)
extractTypeName(type_node) ==
  LET node_type == NodeType(type_node)
      base_type == Child(type_node, 0)
  IN  IF node_type \in {"primitive_type", "type_identifier"}
      THEN getNodeText(type_node)
      ELSE IF node_type = "pointer_declarator" /\ base_type # NullNode
      THEN extractTypeName(base_type) \o <<"*">>
      ELSE IF node_type = "reference_declarator" /\ base_type # NullNode
      THEN extractTypeName(base_type) \o <<"&">>
      ELSE getNodeText(type_node)

\* the Parameter built for one parameter_declaration child
ParameterOf(child) ==
  LET type_node == Child(child, 0)
      name_node == findChildByType(child, "identifier")
  IN  [ type |-> IF type_node # NullNode THEN extractTypeName(type_node) ELSE <<>>,
        name |-> IF name_node # NullNode THEN getNodeText(name_node) ELSE <<>>,
        default_value |-> <<>> ]

RECURSIVE ParametersFrom(_, _)
ParametersFrom(param_list, i) ==
  IF i >= ChildCount(param_list) THEN <<>>
  ELSE (IF NodeType(Child(param_list, i)) = "parameter_declaration"
        THEN <<ParameterOf(Child(param_list, i))>> ELSE <<>>)
         \o ParametersFrom(param_list, i + 1)

extractParameters(function_node) ==
  LET declarator == findChildByType(function_node, "function_declarator")
      param_list == findChildByType(declarator, "parameter_list")
  IN  IF declarator = NullNode THEN <<>>
      ELSE IF param_list = NullNode THEN <<>>
      ELSE ParametersFrom(param_list, 0)

\* how far back findNearbyDocstring looks
DocWindow == 100

findNearbyDocstring(node) ==
  LET node_start == tree[node].start_byte
      before == Substr(content, node_start - DocWindow, DocWindow)
      javadoc_pos == RFind(before, <<"/", "*", "*">>)
      from == node_start - DocWindow + javadoc_pos
      end_pos == Find(content, <<"*", "/">>, from)
  IN  IF /\ node_start > DocWindow
         /\ javadoc_pos # Npos
         /\ end_pos # Npos
         /\ end_pos < node_start
      THEN <<Substr(content, from, end_pos - from + 2)>>
      ELSE <<>>

\* the fields every extract* function fills after the name
Located(node, type, naming, return_type, parameters) ==
  [ type |-> type,
    name |-> naming.name,
    full_name |-> naming.full_name,
    namespace_path |-> naming.namespace_path,
    return_type |-> return_type,
    parameters |-> parameters,
    docstring |-> findNearbyDocstring(node),
    start_line |-> tree[node].start_row + 1,
    end_line |-> tree[node].end_row + 1,
    filename |-> filename,
    source_locations |-> <<>>,
    merged_docstrings |-> <<>>,
    is_merged |-> FALSE,
    ast_node |-> node ]

\* name.rfind("::") splits a qualified name into scope and simple name
SplitQualified(qualified, full_name) ==
  LET scope_pos == RFind(qualified, ScopeSep)
  IN  [ namespace_path |-> Substr(qualified, 0, scope_pos),
        name |-> SubstrFrom(qualified, scope_pos + 2),
        full_name |-> full_name ]

Unscoped(namespace_path, name) ==
  [ namespace_path |-> namespace_path, name |-> name,
    full_name |-> Qualify(namespace_path, name) ]

NoName(namespace_path) ==
  [namespace_path |-> namespace_path, name |-> <<>>, full_name |-> <<>>]

\* text.substr(op_pos, paren_pos - op_pos), trailing whitespace removed; empty
\* when "operator" or the "(" after it is missing
OperatorDeclIn(text) ==
  LET op_pos == Find(text, OperatorKw, 0)
      paren_pos == Find(text, <<"(">>, op_pos)
  IN  IF op_pos = Npos \/ paren_pos = Npos THEN <<>>
      ELSE TrimRight(Substr(text, op_pos, paren_pos - op_pos))

\* extractFunction, the declarator has a qualified_identifier child
NameFromQualifiedIdentifier(name_node, namespace_path) ==
  LET full_qualified_name == getNodeText(name_node)
  IN  IF RFind(full_qualified_name, ScopeSep) # Npos
      THEN SplitQualified(full_qualified_name, full_qualified_name)
      ELSE Unscoped(namespace_path, full_qualified_name)

\* extractFunction, the declarator has no qualified_identifier child
NameFromDeclaratorText(node, declarator, namespace_path) ==
  LET declarator_text == getNodeText(declarator)
      from_text == IF declarator_text = <<>> \/ declarator_text = <<"(", ")">>
                   THEN OperatorDeclIn(getNodeText(node))
                   ELSE extractFunctionNameFromText(declarator_text)
      simple_name_node == findChildByType(declarator, "identifier")
      name == IF from_text = <<>> /\ simple_name_node # NullNode
              THEN getNodeText(simple_name_node)
              ELSE from_text
      split == SplitQualified(name, <<>>)
  IN  IF Contains(name, ScopeSep)
      THEN [split EXCEPT !.full_name = split.namespace_path \o ScopeSep \o split.name]
      ELSE Unscoped(namespace_path, name)

\* extractFunction, the function_definition has no function_declarator child
NameFromFunctionText(node, namespace_path) ==
  LET func_text == getNodeText(node)
      paren_pos == Find(func_text, <<"(">>, 0)
      name_end == ScanBackSpace(func_text, paren_pos)
      name_start == ScanBackIdentifier(func_text, name_end, {"_", "~"})
      method_name == Substr(func_text, name_start, name_end - name_start)
      class_start == ScanBackIdentifier(func_text, name_start - 2, {"_"})
      full_name == Substr(func_text, class_start, name_end - class_start)
  IN  IF Contains(func_text, OperatorKw)
      THEN IF Find(func_text, <<"(">>, Find(func_text, OperatorKw, 0)) = Npos
           THEN NoName(namespace_path)
           ELSE Unscoped(namespace_path, OperatorDeclIn(func_text))
      ELSE IF paren_pos = Npos THEN NoName(namespace_path)
      ELSE IF ~(name_start < name_end) THEN NoName(namespace_path)
      ELSE IF name_start >= 2 /\ Substr(func_text, name_start - 2, 2) = ScopeSep
      THEN SplitQualified(full_name, full_name)
      ELSE Unscoped(namespace_path, method_name)

extractFunction(node, namespace_path) ==
  LET declarator == findChildByType(node, "function_declarator")
      name_node == findChildByType(declarator, "qualified_identifier")
      naming == IF declarator = NullNode
                THEN NameFromFunctionText(node, namespace_path)
                ELSE IF name_node # NullNode
                THEN NameFromQualifiedIdentifier(name_node, namespace_path)
                ELSE NameFromDeclaratorText(node, declarator, namespace_path)
  IN  Located(node, "Function", naming,
              <<extractReturnType(node)>>, extractParameters(node))

findMethodName(node) == findMethodNameInText(getNodeText(node))

extractMethodDeclaration(node, namespace_path) ==
  LET name_node == findChildByType(node, "identifier")
      destructor_node == findChildByType(node, "destructor_name")
      name == IF name_node # NullNode THEN getNodeText(name_node)
              ELSE IF destructor_node # NullNode THEN getNodeText(destructor_node)
              ELSE findMethodName(node)
      parent == tree[node].parent
  IN  Located(node, "Function", Unscoped(namespace_path, name),
              IF parent # NullNode THEN <<extractReturnType(parent)>> ELSE <<>>,
              extractParameters(node))

\* extractClass, extractStruct, extractEnum, extractNamespace: the name is the
\* first child of type name_tag; without one name and full_name stay empty
extractNamed(node, namespace_path, type, name_tag) ==
  LET name_node == findChildByType(node, name_tag)
  IN  Located(node, type,
              IF name_node # NullNode
              THEN Unscoped(namespace_path, getNodeText(name_node))
              ELSE NoName(namespace_path),
              <<>>, <<>>)

extractClass(node, namespace_path) ==
  extractNamed(node, namespace_path, "Class", "type_identifier")
extractStruct(node, namespace_path) ==
  extractNamed(node, namespace_path, "Struct", "type_identifier")
extractEnum(node, namespace_path) ==
  extractNamed(node, namespace_path, "Enum", "type_identifier")
extractNamespace(node, namespace_path) ==
  extractNamed(node, namespace_path, "Namespace", "identifier")

---------------------------------------------------------------------------
(* extractFromNode *)

\* faulty variant: the "= delete" check is missing
IsDeletedFunctionNever(node) == FALSE

\* node_text.find("= delete") != std::string::npos
IsDeletedFunction(node) == Contains(getNodeText(node), <<"=", " ", "d", "e", "l", "e", "t", "e">>)

\* the constructs one call of extractFromNode pushes itself (none or one)
Emitted(node, namespace_path) ==
  LET node_type == NodeType(node)
      declarator == findChildByType(node, "function_declarator")
  IN  IF node_type = "function_definition"
      THEN IF IsDeletedFunction(node) THEN <<>>
           ELSE <<extractFunction(node, namespace_path)>>
      ELSE IF node_type = "function_declarator"
      THEN <<extractMethodDeclaration(node, namespace_path)>>
      ELSE IF node_type = "declaration"
      THEN IF declarator # NullNode
           THEN <<extractMethodDeclaration(declarator, namespace_path)>>
           ELSE <<>>
      ELSE IF node_type = "class_specifier"
      THEN <<extractClass(node, namespace_path)>>
      ELSE IF node_type = "struct_specifier"
      THEN <<extractStruct(node, namespace_path)>>
      ELSE IF node_type = "enum_specifier"
      THEN <<extractEnum(node, namespace_path)>>
      ELSE IF node_type = "namespace_definition"
      THEN <<extractNamespace(node, namespace_path)>>
      ELSE <<>>

\* the characters the call of extractFromNode for node hands to std::isspace
\* and std::isalnum
CtypeArguments(node) ==
  LET node_type == NodeType(node)
      declarator == IF node_type = "function_declarator" THEN node
                    ELSE findChildByType(node, "function_declarator")
      declarator_text == getNodeText(declarator)
  IN  IF node_type = "function_definition"
      THEN IF IsDeletedFunction(node) THEN {}
           ELSE IF declarator = NullNode
           THEN CtypeArgumentsOfFunctionText(getNodeText(node))
           ELSE IF findChildByType(declarator, "qualified_identifier") # NullNode THEN {}
           ELSE IF declarator_text = <<>> \/ declarator_text = <<"(", ")">>
           THEN CtypeArgumentsOfOperatorDecl(getNodeText(node))
           ELSE CtypeArgumentsOfNameFromText(declarator_text)
      ELSE IF node_type \in {"function_declarator", "declaration"} /\ declarator # NullNode
      THEN IF \/ findChildByType(declarator, "identifier") # NullNode
              \/ findChildByType(declarator, "destructor_name") # NullNode
           THEN {}
           ELSE CtypeArgumentsOfMethodName(declarator_text)
      ELSE {}

\* a char above 127 is negative; std::isspace and std::isalnum are defined for
\* EOF and the values of unsigned char only
UndefinedCtypeCall(node) == CtypeArguments(node) \cap HighBytes # {}

\* whether the call reaches the loop over the children (no early return)
Descends(node) ==
  LET node_type == NodeType(node)
  IN  /\ node_type # "function_definition"
      /\ node_type # "function_declarator"
      /\ ~(node_type = "declaration"
             /\ findChildByType(node, "function_declarator") # NullNode)

\* child_namespace_path of the earlier extractor in cesium/src: only a
\* namespace extends the scope
LegacyChildNamespacePath(node, namespace_path) ==
  LET name_node == findChildByType(node, "identifier")
  IN  IF NodeType(node) = "namespace_definition" /\ name_node # NullNode
      THEN Qualify(namespace_path, getNodeText(name_node))
      ELSE namespace_path

\* child_namespace_path, the same for every child of node
ChildNamespacePath(node, namespace_path) ==
  LET node_type == NodeType(node)
      name_node == IF node_type = "namespace_definition"
                   THEN findChildByType(node, "identifier")
                   ELSE IF node_type \in {"class_specifier", "struct_specifier"}
                   THEN findChildByType(node, "type_identifier")
                   ELSE NullNode
  IN  IF name_node # NullNode
      THEN Qualify(namespace_path, getNodeText(name_node))
      ELSE namespace_path

\* the recursive calls for the children, in child order
ChildCalls(node, namespace_path) ==
  [ i \in 1..ChildCount(node) |->
      [ node |-> Child(node, i - 1),
        namespace_path |-> ChildNamespacePath(node, namespace_path) ] ]

---------------------------------------------------------------------------
(* mergeDuplicateConstructs and its helpers *)

\* construct.docstring.has_value() && !construct.docstring->empty()
HasDocText(c) == c.docstring # <<>> /\ c.docstring[1] # <<>>

\* the vector of conflict messages, one tag per message pushed
detectDocstringConflicts(construct1, construct2) ==
  (IF /\ HasDocText(construct1)
      /\ HasDocText(construct2)
      /\ construct1.docstring[1] # construct2.docstring[1]
   THEN <<"docstring">> ELSE <<>>)
  \o
  (IF Len(construct1.parameters) # Len(construct2.parameters)
   THEN <<"parameters">> ELSE <<>>)

\* construct.filename + ":" + std::to_string(construct.start_line)
SourceLocation(construct) ==
  construct.filename \o <<":">> \o ToStdString(construct.start_line)

\* faulty variant: fragments joined by a single newline
RECURSIVE CombineDocstringsNewline(_)
CombineDocstringsNewline(frags) ==
  IF Len(frags) = 0 THEN <<>>
  ELSE IF Len(frags) = 1 THEN frags[1]
  ELSE CombineDocstringsNewline(SubSeq(frags, 1, Len(frags) - 1))
         \o <<"\n">> \o frags[Len(frags)]

\* the combined docstring: fragments with "\n\n" before every one but the first
RECURSIVE CombineDocstrings(_)
CombineDocstrings(frags) ==
  IF Len(frags) = 0 THEN <<>>
  ELSE IF Len(frags) = 1 THEN frags[1]
  ELSE CombineDocstrings(SubSeq(frags, 1, Len(frags) - 1))
         \o <<"\n", "\n">> \o frags[Len(frags)]

\* duplicates[full_name]: the indices, ascending, of the constructs of that name
RECURSIVE IndicesOf(_, _, _)
IndicesOf(cs, full_name, i) ==
  IF i > Len(cs) THEN <<>>
  ELSE (IF cs[i].full_name = full_name THEN <<i>> ELSE <<>>)
         \o IndicesOf(cs, full_name, i + 1)

\* the keys of the duplicates map: every non-empty full_name
DuplicateKeys(cs) ==
  {cs[i].full_name : i \in {j \in DOMAIN cs : cs[j].full_name # <<>>}}

\* faulty variant: the map iterated in insertion order (order of first occurrence)
RECURSIVE KeysInsertionOrder(_)
KeysInsertionOrder(cs) ==
  IF cs = <<>> THEN <<>>
  ELSE LET rest == KeysInsertionOrder(SubSeq(cs, 1, Len(cs) - 1))
           k == cs[Len(cs)].full_name
       IN  IF k = <<>> \/ \E i \in DOMAIN rest : rest[i] = k
           THEN rest ELSE Append(rest, k)

RECURSIVE SortKeys(_)
SortKeys(S) ==
  IF S = {} THEN <<>>
  ELSE LET least == CHOOSE k \in S : \A o \in S \ {k} : StrLess(k, o)
       IN  <<least>> \o SortKeys(S \ {least})

\* iteration order of std::map<std::string, ...>: ascending keys
MapIterationOrder(cs) == SortKeys(DuplicateKeys(cs))

\* faulty variant: a later occurrence is the structural basis of the merged record
MergeSeedLast(cs, indices) == cs[indices[Len(indices)]]

\* CodeConstruct merged = constructs[indices[0]]
MergeSeed(cs, indices) == cs[indices[1]]

\* faulty variant: only occurrences after the first are recorded
RECURSIVE MergeLoopSkipFirst(_, _, _, _, _)
MergeLoopSkipFirst(cs, indices, k, merged, count) ==
  IF k > Len(indices) THEN [merged |-> merged, count |-> count]
  ELSE
    LET construct == cs[indices[k]]
        m1 == IF k = 1 THEN merged
              ELSE [merged EXCEPT !.source_locations =
                      Append(@, SourceLocation(construct))]
        m2 == IF HasDocText(construct) /\ k > 1
              THEN [m1 EXCEPT !.merged_docstrings = Append(@, construct.docstring[1])]
              ELSE m1
        found == IF indices[k] # indices[1]
                 THEN detectDocstringConflicts(m2, construct) ELSE <<>>
    IN  MergeLoopSkipFirst(cs, indices, k + 1, m2, count + Len(found))

\* for (size_t idx : indices) { ... } of the duplicate branch
RECURSIVE MergeLoop(_, _, _, _, _)
MergeLoop(cs, indices, k, merged, count) ==
  IF k > Len(indices) THEN [merged |-> merged, count |-> count]
  ELSE
    LET construct == cs[indices[k]]
        m1 == [merged EXCEPT !.source_locations =
                 Append(@, SourceLocation(construct))]
        m2 == IF HasDocText(construct)
              THEN [m1 EXCEPT !.merged_docstrings = Append(@, construct.docstring[1])]
              ELSE m1
        found == IF indices[k] # indices[1]
                 THEN detectDocstringConflicts(m2, construct) ELSE <<>>
    IN  MergeLoop(cs, indices, k + 1, m2, count + Len(found))

\* faulty variant: the first occurrence stands for its bucket as it is
MergeBucketFirstOnly(cs, indices) == [merged |-> cs[indices[1]], count |-> 0]

\* the body of the loop over the map for one key: the record pushed to
\* merged_constructs and the conflicts counted for it
MergeBucket(cs, indices) ==
  IF Len(indices) > 1
  THEN LET seed == [MergeSeed(cs, indices) EXCEPT
                      !.is_merged = TRUE,
                      !.source_locations = <<>>,
                      !.merged_docstrings = <<>>]
           done == MergeLoop(cs, indices, 1, seed, 0)
           merged == IF done.merged.merged_docstrings # <<>>
                     THEN [done.merged EXCEPT !.docstring =
                             <<CombineDocstrings(done.merged.merged_docstrings)>>]
                     ELSE done.merged
       IN  [merged |-> merged, count |-> done.count]
  ELSE [merged |-> cs[indices[1]], count |-> 0]

\* faulty variant: the indices of merged buckets are not recorded as processed
ProcessedSinglesOnly(cs) ==
  {i \in DOMAIN cs : /\ cs[i].full_name # <<>>
                     /\ Len(IndicesOf(cs, cs[i].full_name, 1)) = 1}

\* processed_indices after the loop over the map
ProcessedIndices(cs) == {i \in DOMAIN cs : cs[i].full_name # <<>>}

\* faulty variant: constructs without a name are grouped under the empty key as well
StandaloneNone(cs, i) == <<>>

\* the trailing loop: constructs the map never held pass through, in order
RECURSIVE Standalone(_, _)
Standalone(cs, i) ==
  IF i > Len(cs) THEN <<>>
  ELSE (IF i \in ProcessedIndices(cs) THEN <<>> ELSE <<cs[i]>>)
         \o Standalone(cs, i + 1)

RECURSIVE MergeKeys(_, _, _)
MergeKeys(cs, keys, k) ==
  IF k > Len(keys) THEN [out |-> <<>>, count |-> 0]
  ELSE LET b == MergeBucket(cs, IndicesOf(cs, keys[k], 1))
           rest == MergeKeys(cs, keys, k + 1)
       IN  [out |-> <<b.merged>> \o rest.out, count |-> b.count + rest.count]

\* the whole function: the new contents of the vector and the returned count
mergeDuplicateConstructs(cs) ==
  IF cs = <<>> THEN [out |-> <<>>, count |-> 0]
  ELSE LET m == MergeKeys(cs, MapIterationOrder(cs), 1)
       IN  [out |-> m.out \o Standalone(cs, 1), count |-> m.count]

---------------------------------------------------------------------------
(* The vectors handed to mergeDuplicateConstructs *)

MaxConstructs == 3

NameA == <<"a">>
NameB == <<"b">>
DocA == <<"/", "*", "*", "A", "*", "/">>
DocB == <<"/", "*", "*", "B", "*", "/">>
FileH == <<"x", ".", "h">>
FileCpp == <<"x", ".", "c", "p", "p">>
TypeInt == <<"i", "n", "t">>
TypeVoid == <<"v", "o", "i", "d">>

ParamV == [type |-> TypeInt, name |-> <<"v">>, default_value |-> <<>>]

\* where a construct was found and what was found there
Occurrences ==
  { [type |-> "Class", filename |-> FileH, start_line |-> 3, end_line |-> 9,
     parameters |-> <<>>, return_type |-> <<>>],
    [type |-> "Function", filename |-> FileCpp, start_line |-> 12, end_line |-> 14,
     parameters |-> <<ParamV>>, return_type |-> <<TypeVoid>>] }

\* a CodeConstruct as an extract* function returns it (is_merged = false,
\* no source_locations, no merged_docstrings)
NewConstruct(o, full_name, docstring) ==
  [ type |-> o.type, name |-> full_name, full_name |-> full_name,
    namespace_path |-> <<>>, return_type |-> o.return_type,
    parameters |-> o.parameters, docstring |-> docstring,
    start_line |-> o.start_line, end_line |-> o.end_line, filename |-> o.filename,
    source_locations |-> <<>>, merged_docstrings |-> <<>>, is_merged |-> FALSE,
    ast_node |-> NullNode ]

RawConstructs ==
  { NewConstruct(o, n, d) :
      o \in Occurrences,
      n \in {<<>>, NameA, NameB},
      d \in {<<>>, << <<>> >>, <<DocA>>, <<DocB>>} }

InitMerge ==
  /\ phase = "extracting"
  /\ constructs = <<>>
  /\ input = <<>>
  /\ conflicts = 0
  /\ tree = <<>>
  /\ content = <<>>
  /\ filename = <<>>
  /\ stack = <<>>
  /\ test_input = <<>>
  /\ result = <<>>
  /\ docstring_blocks = <<>>
  /\ all_constructs = <<>>
  /\ files = <<>>
  /\ directory = <<>>
  /\ run = 0
  /\ cache = [files |-> {}, output_to_source |-> {}]

\* constructs.push_back(...) of one extracted record
PushConstruct ==
  /\ phase = "extracting"
  /\ Len(constructs) < MaxConstructs
  /\ \E c \in RawConstructs : constructs' = Append(constructs, c)
  /\ UNCHANGED <<phase, input, conflicts, treeVars, nameVars, docVars, runVars>>

\* int conflicts = mergeDuplicateConstructs(constructs)
MergeDuplicates ==
  /\ phase = "extracting"
  /\ stack = <<>>
  /\ LET r == mergeDuplicateConstructs(constructs)
     IN  /\ constructs' = r.out
         /\ conflicts' = r.count
  /\ input' = constructs
  /\ phase' = "merged"
  /\ UNCHANGED <<treeVars, nameVars, docVars, runVars>>

NextMerge == PushConstruct \/ MergeDuplicates

SpecMerge == InitMerge /\ [][NextMerge]_vars

---------------------------------------------------------------------------
(* Properties of mergeDuplicateConstructs *)

Merged == phase = "merged"

\* the positions in the input vector at which qualified name n occurs
InputPositions(n) == {i \in DOMAIN input : input[i].full_name = n}

\* the positions in the output vector of the records named n
OutputPositions(n) == {j \in DOMAIN constructs : constructs[j].full_name = n}

\* the k-th smallest element of a set of positions
NthPosition(S, k) == CHOOSE i \in S : Cardinality({j \in S : j < i}) = k - 1

InputNames == {input[i].full_name : i \in DOMAIN input} \ {<<>>}

\* C1: after the merge every distinct non-empty qualified name of the input
\* occurs in exactly one record of the output.
C1_EachNameExactlyOnce ==
  Merged => \A n \in InputNames : Cardinality(OutputPositions(n)) = 1

C1_Witness ==
  /\ Merged
  /\ Cardinality(InputNames) = 2
  /\ \E n \in InputNames : Cardinality(InputPositions(n)) = 2
  /\ Len(constructs) = 2

\* the decimal text of the line numbers the constructs carry
LineText == (3 :> <<"3">>) @@ (12 :> <<"1", "2">>)

\* C2: a qualified name occurring k >= 2 times yields a record with
\* is_merged = true whose source_locations has exactly k entries, the i-th
\* being "<filename>:<start_line>" of the i-th occurrence in input order.
C2_MergedLocations ==
  Merged =>
    \A n \in InputNames :
      LET occ == InputPositions(n)
          k == Cardinality(occ)
      IN  k >= 2 =>
            /\ OutputPositions(n) # {}
            /\ \A j \in OutputPositions(n) :
                 /\ constructs[j].is_merged = TRUE
                 /\ Len(constructs[j].source_locations) = k
                 /\ \A i \in 1..k :
                      LET c == input[NthPosition(occ, i)]
                      IN  constructs[j].source_locations[i]
                            = c.filename \o <<":">> \o LineText[c.start_line]

C2_Witness ==
  /\ Merged
  /\ \E j \in DOMAIN constructs :
       /\ constructs[j].is_merged
       /\ constructs[j].source_locations
            = << <<"x", ".", "c", "p", "p", ":", "1", "2">>,
                 <<"x", ".", "h", ":", "3">>,
                 <<"x", ".", "c", "p", "p", ":", "1", "2">> >>

\* the text of an optional docstring, absent counting as empty
DocText(d) == IF d = <<>> THEN <<>> ELSE d[1]

\* the non-empty doc comments of the occurrences of n, in input order
DocsOf(n) ==
  LET Documented(c) == c.full_name = n /\ DocText(c.docstring) # <<>>
      hits == SelectSeq(input, Documented)
  IN  [i \in 1..Len(hits) |-> hits[i].docstring[1]]

RECURSIVE BlankLineJoin(_)
BlankLineJoin(fs) ==
  IF fs = <<>> THEN <<>>
  ELSE IF Len(fs) = 1 THEN Head(fs)
  ELSE Head(fs) \o <<"\n", "\n">> \o BlankLineJoin(Tail(fs))

\* C3: for a bucket of k >= 2 occurrences the merged doc_comment is the
\* non-empty doc comments in input order joined with "\n\n"; absent or empty
\* doc comments contribute nothing.
C3_MergedDocComment ==
  Merged =>
    \A n \in InputNames :
      Cardinality(InputPositions(n)) >= 2 =>
        /\ OutputPositions(n) # {}
        /\ \A j \in OutputPositions(n) :
             DocText(constructs[j].docstring) = BlankLineJoin(DocsOf(n))

C3_Witness ==
  /\ Merged
  /\ Len(input) = 3
  /\ input[1].docstring = <<DocA>>
  /\ input[2].docstring = << <<>> >>
  /\ input[3].docstring = <<DocB>>
  /\ \E j \in DOMAIN constructs :
       /\ constructs[j].is_merged
       /\ Len(constructs[j].source_locations) = 3
       /\ constructs[j].docstring = <<DocA \o <<"\n", "\n">> \o DocB>>

\* C4: two occurrences of one name with different parameter counts still
\* give exactly one record, built on the first-seen occurrence (kind, name,
\* parameters, span), and the returned conflict count is at least 1.
C4_ParameterConflictDoesNotBlock ==
  Merged =>
    \A n \in InputNames :
      LET occ == InputPositions(n)
      IN  (\E a, b \in occ :
             Len(input[a].parameters) # Len(input[b].parameters)) =>
            /\ Cardinality(OutputPositions(n)) = 1
            /\ conflicts >= 1
            /\ \A j \in OutputPositions(n) :
                 LET first == input[NthPosition(occ, 1)]
                 IN  /\ constructs[j].type = first.type
                     /\ constructs[j].name = first.name
                     /\ constructs[j].parameters = first.parameters
                     /\ constructs[j].start_line = first.start_line
                     /\ constructs[j].end_line = first.end_line

C4_Witness ==
  /\ Merged
  /\ Len(input) = 2
  /\ input[1].full_name = input[2].full_name
  /\ input[1].full_name # <<>>
  /\ Len(input[1].parameters) = 0
  /\ Len(input[2].parameters) = 1
  /\ input[1].docstring = input[2].docstring
  /\ Len(constructs) = 1
  /\ conflicts = 1

Unnamed(c) == c.full_name = <<>>

\* C5: constructs with an empty qualified name are never merged: each is in
\* the output as its own unchanged record with is_merged = false, also when
\* two of them agree in every field.
C5_EmptyNamesStayStandalone ==
  Merged =>
    /\ SelectSeq(constructs, Unnamed) = SelectSeq(input, Unnamed)
    /\ \A j \in DOMAIN constructs :
         Unnamed(constructs[j]) => constructs[j].is_merged = FALSE

C5_Witness ==
  /\ Merged
  /\ Len(input) = 3
  /\ Unnamed(input[1])
  /\ input[3] = input[1]
  /\ ~Unnamed(input[2])
  /\ Len(constructs) = 3
  /\ constructs[2] = constructs[3]

\* the non-empty qualified names of a vector in order of first occurrence
RECURSIVE FirstSeenNames(_)
FirstSeenNames(cs) ==
  IF cs = <<>> THEN <<>>
  ELSE LET n == Head(cs).full_name
           Other(c) == c.full_name # n
       IN  (IF n = <<>> THEN <<>> ELSE <<n>>)
             \o FirstSeenNames(SelectSeq(Tail(cs), Other))

NamesOf(cs) == [i \in DOMAIN cs |-> cs[i].full_name]

Named(c) == c.full_name # <<>>

\* C6 as stated: the records of the non-empty names come in the order in which
\* the names were first encountered, then the empty-named constructs in their
\* original relative order.
C6_FirstSeenOrder ==
  Merged =>
    /\ NamesOf(SelectSeq(constructs, Named)) = FirstSeenNames(input)
    /\ constructs = SelectSeq(constructs, Named) \o SelectSeq(input, Unnamed)

\* C6 amended: the records of the non-empty names come in ascending
\* byte-wise order of the qualified name, then the empty-named constructs in
\* their original relative order.
C6_AscendingNameOrder ==
  Merged =>
    /\ \A i, j \in DOMAIN constructs :
         (i < j /\ Named(constructs[i]) /\ Named(constructs[j])) =>
           StrLess(constructs[i].full_name, constructs[j].full_name)
    /\ constructs = SelectSeq(constructs, Named) \o SelectSeq(input, Unnamed)

C6_Witness ==
  /\ Merged
  /\ Len(input) = 3
  /\ input[1].full_name = NameB
  /\ input[2].full_name = <<>>
  /\ input[3].full_name = NameA
  /\ NamesOf(constructs) = <<NameA, NameB, <<>> >>

---------------------------------------------------------------------------
(* extractFunctionNameFromText applied to declarator texts *)

\* class qualifications written in front of the name (none, one, nested)
Qualifiers == {<<>>, <<"J", "s", "o", "n", "D", "o", "c", ":", ":">>, <<"J", "s", "o", "n", "V", "a", "l", "u", "e", ":", ":">>, <<"a", ":", ":", "B", ":", ":">>}

\* the function's own name as written in the declarator
OwnNames ==
  { <<"o", "p", "e", "r", "a", "t", "o", "r", "=">>, <<"o", "p", "e", "r", "a", "t", "o", "r", "[", "]">>, <<"o", "p", "e", "r", "a", "t", "o", "r", "(", ")">>, <<"o", "p", "e", "r", "a", "t", "o", "r", " ", "=", "=">>, <<"o", "p", "e", "r", "a", "t", "o", "r", " ", "b", "o", "o", "l">>,
    <<"s", "o", "m", "e", "F", "u", "n", "c", "t", "i", "o", "n">>, <<"~", "J", "s", "o", "n", "D", "o", "c">>, <<"f">>, <<"i", "s", "_", "o", "p", "e", "r", "a", "t", "o", "r", "_", "o", "k">> }

\* the parameter list with trailing qualifiers; empty when the text has none
ParameterTails ==
  { <<>>, <<"(", ")">>, <<"(", "J", "s", "o", "n", "D", "o", "c", "&", "&", " ", "o", "t", "h", "e", "r", ")", " ", "n", "o", "e", "x", "c", "e", "p", "t">>, <<"(", "c", "o", "n", "s", "t", " ", "s", "t", "d", ":", ":", "s", "t", "r", "i", "n", "g", "&", " ", "k", "e", "y", ")", " ", "c", "o", "n", "s", "t">>,
    <<" ", "(", "i", "n", "t", " ", "a", ",", " ", "i", "n", "t", " ", "b", ")">> }

DeclaratorTexts ==
  {q \o n \o t : q \in Qualifiers, n \in OwnNames, t \in ParameterTails}

InitName ==
  /\ phase = "text"
  /\ test_input \in DeclaratorTexts
  /\ result = <<>>
  /\ docstring_blocks = <<>>
  /\ all_constructs = <<>>
  /\ files = <<>>
  /\ directory = <<>>
  /\ run = 0
  /\ cache = [files |-> {}, output_to_source |-> {}]
  /\ constructs = <<>>
  /\ input = <<>>
  /\ conflicts = 0
  /\ tree = <<>>
  /\ content = <<>>
  /\ filename = <<>>
  /\ stack = <<>>

\* std::string result = extractor.extractFunctionNameFromText(test_input)
ExtractName ==
  /\ phase = "text"
  /\ result' = extractFunctionNameFromText(test_input)
  /\ phase' = "named"
  /\ UNCHANGED <<test_input, mergeVars, treeVars, docVars, runVars>>

NextName == ExtractName

SpecName == InitName /\ [][NextName]_vars

Recovered == phase = "named"

\* C10: when the part of the declarator text before the parameter list
\* contains "::", extractFunctionNameFromText returns exactly that qualified
\* name: parameter list and trailing qualifiers stripped, class qualification
\* and operator symbol kept.
C10_QualifiedNameRecovered ==
  Recovered =>
    \A q \in Qualifiers, n \in OwnNames, t \in ParameterTails :
      (q # <<>> /\ t # <<>> /\ test_input = q \o n \o t)
        => result = q \o n

---------------------------------------------------------------------------
(* Parsing: a translation unit is described as nested syntax nodes, each    *)
(* leaf carrying its token and the whitespace before it; parsing lays the   *)
(* tokens out as the file content and numbers the nodes in pre-order        *)

Leaf(type, ws, tok) == [type |-> type, ws |-> ws, tok |-> tok, kids |-> <<>>]
Inner(type, ws, kids) == [type |-> type, ws |-> ws, tok |-> <<>>, kids |-> kids]

RECURSIVE FlattenNode(_, _, _, _)
RECURSIVE FlattenKids(_, _, _, _, _)

\* the nodes and text of syntax node d placed at byte offset, d getting index id
FlattenNode(d, offset, id, parent) ==
  LET start == offset + Len(d.ws)
      sub == FlattenKids(d.kids, 1, start, id + 1, id)
      text == IF d.kids = <<>> THEN d.tok ELSE sub.text
  IN  [ nodes |-> << [ type |-> d.type, start_byte |-> start,
                       end_byte |-> start + Len(text), parent |-> parent,
                       children |-> sub.ids ] >> \o sub.nodes,
        text |-> d.ws \o text,
        ids |-> <<id>> ]

FlattenKids(kids, k, offset, id, parent) ==
  IF k > Len(kids) THEN [nodes |-> <<>>, text |-> <<>>, ids |-> <<>>]
  ELSE LET first == FlattenNode(kids[k], offset, id, parent)
           rest == FlattenKids(kids, k + 1, offset + Len(first.text),
                               id + Len(first.nodes), parent)
       IN  [ nodes |-> first.nodes \o rest.nodes,
             text |-> first.text \o rest.text,
             ids |-> first.ids \o rest.ids ]

\* ts_node_start_point / ts_node_end_point rows: line breaks before the byte
RowOf(text, byte) == Cardinality({k \in 1..byte : text[k] = "\n"})

\* ts_parser_parse_string followed by ts_tree_root_node
ParseSource(root) ==
  LET flat == FlattenNode(root, 0, 1, NullNode)
  IN  [ content |-> flat.text,
        tree |-> [ n \in 1..Len(flat.nodes) |->
                     [ type |-> flat.nodes[n].type,
                       start_byte |-> flat.nodes[n].start_byte,
                       end_byte |-> flat.nodes[n].end_byte,
                       parent |-> flat.nodes[n].parent,
                       children |-> flat.nodes[n].children,
                       start_row |-> RowOf(flat.text, flat.nodes[n].start_byte),
                       end_row |-> RowOf(flat.text, flat.nodes[n].end_byte) ] ] ]

---------------------------------------------------------------------------
(* The translation units explored: one class-like scope with one member,    *)
(* wrapped in namespaces, followed by one free function                     *)

EmptyParameterList ==
  Inner("parameter_list", <<>>, <<Leaf("(", <<>>, <<"(">>), Leaf(")", <<>>, <<")">>)>>)

IntParameterList ==
  Inner("parameter_list", <<>>,
        << Leaf("(", <<>>, <<"(">>),
           Inner("parameter_declaration", <<>>,
                 << Leaf("primitive_type", <<>>, <<"i", "n", "t">>),
                    Leaf("identifier", <<" ">>, <<"x">>) >>),
           Leaf(")", <<>>, <<")">>) >>)

EmptyBody ==
  Inner("compound_statement", <<" ">>, <<Leaf("{", <<>>, <<"{">>), Leaf("}", <<" ">>, <<"}">>)>>)

FunctionDeclarator(name_leaf, parameter_list) ==
  Inner("function_declarator", <<" ">>, <<name_leaf, parameter_list>>)

\* void m() { }
InlineMethod(name_leaf, parameter_list) ==
  Inner("function_definition", <<"\n", " ", " ">>,
        << Leaf("primitive_type", <<>>, <<"v", "o", "i", "d">>),
           FunctionDeclarator(name_leaf, parameter_list),
           EmptyBody >>)

\* void m();
DeclaredMethod(name_leaf, parameter_list) ==
  Inner("field_declaration", <<"\n", " ", " ">>,
        << Leaf("primitive_type", <<>>, <<"v", "o", "i", "d">>),
           FunctionDeclarator(name_leaf, parameter_list),
           Leaf(";", <<>>, <<";">>) >>)

\* C(int x) = delete;
DeletedConstructor ==
  Inner("function_definition", <<"\n", " ", " ">>,
        << Inner("function_declarator", <<>>,
                 <<Leaf("identifier", <<>>, <<"C">>), IntParameterList>>),
           Inner("delete_method_clause", <<" ">>,
                 <<Leaf("=", <<>>, <<"=">>), Leaf("delete", <<" ">>, <<"d", "e", "l", "e", "t", "e">>)>>),
           Leaf(";", <<>>, <<";">>) >>)

\* void (*fp)();   a member that is a pointer to a function
FunctionPointerMember ==
  Inner("field_declaration", <<"\n", " ", " ">>,
        << Leaf("primitive_type", <<>>, <<"v", "o", "i", "d">>),
           Inner("function_declarator", <<" ">>,
                 << Inner("parenthesized_declarator", <<>>,
                          << Leaf("(", <<>>, <<"(">>),
                             Inner("pointer_declarator", <<>>,
                                   << Leaf("*", <<>>, <<"*">>),
                                      Leaf("field_identifier", <<>>, <<"f", "p">>) >>),
                             Leaf(")", <<>>, <<")">>) >>),
                    EmptyParameterList >>),
           Leaf(";", <<>>, <<";">>) >>)

\* C() { }
InlineConstructor ==
  Inner("function_definition", <<"\n", " ", " ">>,
        << Inner("function_declarator", <<>>,
                 <<Leaf("identifier", <<>>, <<"C">>), EmptyParameterList>>),
           EmptyBody >>)

MethodNameLeaves ==
  { Leaf("field_identifier", <<>>, <<"m">>),
    Leaf("operator_name", <<>>, <<"o", "p", "e", "r", "a", "t", "o", "r", "(", ")">>),
    Leaf("operator_name", <<>>, <<"o", "p", "e", "r", "a", "t", "o", "r", "=", "=">>) }

Members ==
  {InlineMethod(l, p) : l \in MethodNameLeaves,
                        p \in {EmptyParameterList, IntParameterList}}
    \cup {DeclaredMethod(l, EmptyParameterList) : l \in MethodNameLeaves}
    \cup {DeletedConstructor, FunctionPointerMember, InlineConstructor}

\* class C { member };   or   struct C { member };
ClassLike(type, keyword, ws, member) ==
  Inner(type, ws,
        << keyword,
           Leaf("type_identifier", <<" ">>, <<"C">>),
           Inner("field_declaration_list", <<" ">>,
                 <<Leaf("{", <<>>, <<"{">>), member, Leaf("}", <<"\n">>, <<"}">>)>>) >>)

\* namespace N { inner; }   name_leaves is empty for an anonymous namespace
NamespaceOf(name_leaves, ws, inner) ==
  Inner("namespace_definition", ws,
        << Leaf("namespace", <<>>, <<"n", "a", "m", "e", "s", "p", "a", "c", "e">>) >> \o name_leaves \o
        << Inner("declaration_list", <<" ">>,
                 <<Leaf("{", <<>>, <<"{">>), inner, Leaf(";", <<>>, <<";">>), Leaf("}", <<"\n">>, <<"}">>)>>) >>)

NamespaceName(text) == <<Leaf("identifier", <<" ">>, text)>>

Scopes(member) ==
  { <<ClassLike("class_specifier", Leaf("class", <<>>, <<"c", "l", "a", "s", "s">>), <<>>, member), Leaf(";", <<>>, <<";">>)>>,
    <<NamespaceOf(NamespaceName(<<"N">>), <<>>,
                  ClassLike("class_specifier", Leaf("class", <<>>, <<"c", "l", "a", "s", "s">>), <<"\n">>, member))>>,
    <<NamespaceOf(NamespaceName(<<"O">>), <<>>,
        NamespaceOf(NamespaceName(<<"N">>), <<"\n">>,
                    ClassLike("struct_specifier", Leaf("struct", <<>>, <<"s", "t", "r", "u", "c", "t">>), <<"\n">>, member)))>>,
    <<NamespaceOf(<<>>, <<>>,
                  ClassLike("class_specifier", Leaf("class", <<>>, <<"c", "l", "a", "s", "s">>), <<"\n">>, member))>> }

\* int f(int x) { struct L { void g() { } }; }
FunctionWithLocalStruct ==
  Inner("function_definition", <<"\n">>,
        << Leaf("primitive_type", <<>>, <<"i", "n", "t">>),
           FunctionDeclarator(Leaf("identifier", <<>>, <<"f">>), IntParameterList),
           Inner("compound_statement", <<" ">>,
                 << Leaf("{", <<>>, <<"{">>),
                    Inner("struct_specifier", <<" ">>,
                          << Leaf("struct", <<>>, <<"s", "t", "r", "u", "c", "t">>),
                             Leaf("type_identifier", <<" ">>, <<"L">>),
                             Inner("field_declaration_list", <<" ">>,
                                   << Leaf("{", <<>>, <<"{">>),
                                      InlineMethod(Leaf("field_identifier", <<>>, <<"g">>),
                                                   EmptyParameterList),
                                      Leaf("}", <<" ">>, <<"}">>) >>) >>),
                    Leaf(";", <<>>, <<";">>),
                    Leaf("}", <<" ">>, <<"}">>) >>) >>)

\* void C::m() { }
OutOfLineMethod ==
  Inner("function_definition", <<"\n">>,
        << Leaf("primitive_type", <<>>, <<"v", "o", "i", "d">>),
           FunctionDeclarator(
             Inner("qualified_identifier", <<>>,
                   << Leaf("namespace_identifier", <<>>, <<"C">>),
                      Leaf("::", <<>>, <<":", ":">>),
                      Leaf("identifier", <<>>, <<"m">>) >>),
             EmptyParameterList),
           EmptyBody >>)

\* void h(int x) = delete;
DeletedFunction ==
  Inner("function_definition", <<"\n">>,
        << Leaf("primitive_type", <<>>, <<"v", "o", "i", "d">>),
           FunctionDeclarator(Leaf("identifier", <<>>, <<"h">>), IntParameterList),
           Inner("delete_method_clause", <<" ">>,
                 <<Leaf("=", <<>>, <<"=">>), Leaf("delete", <<" ">>, <<"d", "e", "l", "e", "t", "e">>)>>),
           Leaf(";", <<>>, <<";">>) >>)

\* int* p() { }
PointerFunction ==
  Inner("function_definition", <<"\n">>,
        << Leaf("primitive_type", <<>>, <<"i", "n", "t">>),
           Inner("pointer_declarator", <<>>,
                 << Leaf("*", <<>>, <<"*">>),
                    FunctionDeclarator(Leaf("identifier", <<>>, <<"p">>),
                                       EmptyParameterList) >>),
           EmptyBody >>)

\* void q(int x);
FunctionPrototype ==
  Inner("declaration", <<"\n">>,
        << Leaf("primitive_type", <<>>, <<"v", "o", "i", "d">>),
           FunctionDeclarator(Leaf("identifier", <<>>, <<"q">>), IntParameterList),
           Leaf(";", <<>>, <<";">>) >>)

\* void ::r() { }
GlobalQualifiedFunction ==
  Inner("function_definition", <<"\n">>,
        << Leaf("primitive_type", <<>>, <<"v", "o", "i", "d">>),
           FunctionDeclarator(
             Inner("qualified_identifier", <<>>,
                   << Leaf("::", <<>>, <<":", ":">>),
                      Leaf("identifier", <<>>, <<"r">>) >>),
             EmptyParameterList),
           EmptyBody >>)

\* static N::T s() { }
StaticFunction ==
  Inner("function_definition", <<"\n">>,
        << Inner("storage_class_specifier", <<>>, <<Leaf("static", <<>>, <<"s", "t", "a", "t", "i", "c">>)>>),
           Inner("qualified_identifier", <<" ">>,
                 << Leaf("namespace_identifier", <<>>, <<"N">>),
                    Leaf("::", <<>>, <<":", ":">>),
                    Leaf("type_identifier", <<>>, <<"T">>) >>),
           FunctionDeclarator(Leaf("identifier", <<>>, <<"s">>), EmptyParameterList),
           EmptyBody >>)

\* auto t() -> int { }
TrailingReturnFunction ==
  Inner("function_definition", <<"\n">>,
        << Inner("placeholder_type_specifier", <<>>, <<Leaf("auto", <<>>, <<"a", "u", "t", "o">>)>>),
           Inner("function_declarator", <<" ">>,
                 << Leaf("identifier", <<>>, <<"t">>),
                    EmptyParameterList,
                    Inner("trailing_return_type", <<" ">>,
                          << Leaf("->", <<>>, <<"-", ">">>),
                             Inner("type_descriptor", <<" ">>,
                                   <<Leaf("primitive_type", <<>>, <<"i", "n", "t">>)>>) >>) >>),
           EmptyBody >>)

\* void U+00E9() { }: a function whose name is not ASCII
NonAsciiFunction ==
  Inner("function_definition", <<"\n">>,
        << Leaf("primitive_type", <<>>, <<"v", "o", "i", "d">>),
           FunctionDeclarator(Leaf("identifier", <<>>, <<"0xC3", "0xA9">>), EmptyParameterList),
           EmptyBody >>)

FreeFunctions ==
  { <<>>, <<FunctionWithLocalStruct>>, <<OutOfLineMethod>>, <<DeletedFunction>>,
    <<PointerFunction>>, <<FunctionPrototype>>, <<GlobalQualifiedFunction>>,
    <<StaticFunction>>, <<TrailingReturnFunction>>, <<NonAsciiFunction>> }

\* namespace N { class C { void m(); }; void C::m() { } }: a method declared in
\* its class and defined behind it in the same namespace
SplitMethodUnit ==
  Inner("translation_unit", <<>>,
        << Inner("namespace_definition", <<>>,
                 << Leaf("namespace", <<>>, <<"n", "a", "m", "e", "s", "p", "a", "c", "e">>),
                    Leaf("identifier", <<" ">>, <<"N">>),
                    Inner("declaration_list", <<" ">>,
                          << Leaf("{", <<>>, <<"{">>),
                             ClassLike("class_specifier", Leaf("class", <<>>, <<"c", "l", "a", "s", "s">>), <<"\n">>,
                                       DeclaredMethod(Leaf("identifier", <<>>, <<"m">>),
                                                      EmptyParameterList)),
                             Leaf(";", <<>>, <<";">>),
                             OutOfLineMethod,
                             Leaf("}", <<"\n">>, <<"}">>) >>) >>) >>)

TranslationUnits ==
  { Inner("translation_unit", <<>>, scope \o function) :
      scope \in UNION {Scopes(member) : member \in Members},
      function \in FreeFunctions }
    \cup {SplitMethodUnit}

---------------------------------------------------------------------------
(* Files with documentation comments *)

\* int add(int a, int b) { return a + b; }
AddFunction(ws) ==
  Inner("function_definition", ws,
        << Leaf("primitive_type", <<>>, <<"i", "n", "t">>),
           Inner("function_declarator", <<" ">>,
                 << Leaf("identifier", <<>>, <<"a", "d", "d">>),
                    Inner("parameter_list", <<>>,
                          << Leaf("(", <<>>, <<"(">>),
                             Inner("parameter_declaration", <<>>,
                                   << Leaf("primitive_type", <<>>, <<"i", "n", "t">>),
                                      Leaf("identifier", <<" ">>, <<"a">>) >>),
                             Leaf(",", <<>>, <<",">>),
                             Inner("parameter_declaration", <<" ">>,
                                   << Leaf("primitive_type", <<>>, <<"i", "n", "t">>),
                                      Leaf("identifier", <<" ">>, <<"b">>) >>),
                             Leaf(")", <<>>, <<")">>) >>) >>),
           Inner("compound_statement", <<" ">>,
                 << Leaf("{", <<>>, <<"{">>),
                    Inner("return_statement", <<" ">>,
                          << Leaf("return", <<>>, <<"r", "e", "t", "u", "r", "n">>),
                             Inner("binary_expression", <<" ">>,
                                   << Leaf("identifier", <<>>, <<"a">>),
                                      Leaf("+", <<" ">>, <<"+">>),
                                      Leaf("identifier", <<" ">>, <<"b">>) >>),
                             Leaf(";", <<>>, <<";">>) >>),
                    Leaf("}", <<" ">>, <<"}">>) >>) >>)

\* void f(int x);
DeclaredFunction ==
  Inner("declaration", <<"\n">>,
        << Leaf("primitive_type", <<>>, <<"v", "o", "i", "d">>),
           FunctionDeclarator(Leaf("identifier", <<>>, <<"f">>), IntParameterList),
           Leaf(";", <<>>, <<";">>) >>)

\* void f(int x) { }
DefinedFunction ==
  Inner("function_definition", <<"\n">>,
        << Leaf("primitive_type", <<>>, <<"v", "o", "i", "d">>),
           FunctionDeclarator(Leaf("identifier", <<>>, <<"f">>), IntParameterList),
           EmptyBody >>)

PaddingLen == 100

Dashes == [i \in 1..PaddingLen |-> "-"]

\* an ordinary comment that moves what follows beyond the first 100 bytes
Padding == <<Leaf("comment", <<>>, <<"/", "*">> \o Dashes \o <<"*", "/">>)>>

AddComments ==
  { <<"/", "*", "*", " ", "A", "d", "d", " ", "t", "w", "o", " ", "n", "u", "m", "b", "e", "r", "s", " ", "*", "/">>,
    <<"/", "*", "*", " ", "@", "b", "r", "i", "e", "f", " ", "A", "d", "d", " ", "t", "w", "o", " ", "n", "u", "m", "b", "e", "r", "s", " ", "*", "/">>,
    <<"/", "*", "*", "\n", " ", "*", " ", "A", "d", "d", " ", "t", "w", "o", " ", "n", "u", "m", "b", "e", "r", "s", "\n", " ", "*", " ", "@", "p", "a", "r", "a", "m", " ", "a", " ", "f", "i", "r", "s", "t", "\n", " ", "*", "/">> }

DeclarationComments == {<<"/", "*", "*", " ", "D", "e", "c", "l", "a", "r", "e", "s", " ", "f", " ", "*", "/">>, <<"/", "*", "*", " ", "D", "e", "c", "l", "a", "r", "e", "s", " ", "f", " ">> \o Dashes \o <<" ", "*", "/">>}

DefinitionComments == {<<"/", "*", "*", " ", "D", "e", "f", "i", "n", "e", "s", " ", "f", " ", "*", "/">>, <<"/", "*", "*", " ", "D", "e", "f", "i", "n", "e", "s", " ", "f", " ">> \o Dashes \o <<" ", "*", "/">>}

\* a comment, then add on the next line, on the same line, or right behind it
AddFiles ==
  { before \o <<Leaf("comment", IF before = <<>> THEN <<>> ELSE <<"\n">>, c), AddFunction(ws)>> :
      before \in {<<>>, Padding}, c \in AddComments, ws \in {<<"\n">>, <<" ">>, <<>>} }

\* a declaration and a definition of f, each behind its own comment
SplitFiles ==
  { before \o << Leaf("comment", IF before = <<>> THEN <<>> ELSE <<"\n">>, c1), DeclaredFunction,
                 Leaf("comment", <<"\n">>, c2), DefinedFunction >> :
      before \in {<<>>, Padding}, c1 \in DeclarationComments, c2 \in DefinitionComments }

\* void g() { }
UndocumentedFunction ==
  Inner("function_definition", <<"\n">>,
        << Leaf("primitive_type", <<>>, <<"v", "o", "i", "d">>),
           FunctionDeclarator(Leaf("identifier", <<>>, <<"g">>), EmptyParameterList),
           EmptyBody >>)

\* a definition of f behind its comment and, on the next line, g without one
NeighbourFiles ==
  { before \o << Leaf("comment", IF before = <<>> THEN <<>> ELSE <<"\n">>, <<"/", "*", "*", " ", "D", "e", "f", "i", "n", "e", "s", " ", "f", " ", "*", "/">>),
                 DefinedFunction, UndocumentedFunction >> :
      before \in {<<>>, Padding} }

DocumentedFiles ==
  { Inner("translation_unit", <<>>, kids) :
      kids \in AddFiles \cup SplitFiles \cup NeighbourFiles }

---------------------------------------------------------------------------
(* DocstringParser::parseDocstringContent: the description of a comment *)

TrimSet == {" ", "\t", "\n", "\r"}

\* DocstringParser::trim
trim(str) ==
  LET kept == {i \in 1..Len(str) : str[i] \notin TrimSet}
      first == CHOOSE i \in kept : \A j \in kept : i <= j
      last == CHOOSE i \in kept : \A j \in kept : j <= i
  IN  IF kept = {} THEN <<>> ELSE SubSeq(str, first, last)

\* the lines std::getline reads from text: split at "\n", no line for the
\* empty rest after a final "\n"
RECURSIVE GetLines(_)
GetLines(text) ==
  LET nl == Find(text, <<"\n">>, 0)
  IN  IF text = <<>> THEN <<>>
      ELSE IF nl = Npos THEN <<text>>
      ELSE <<Substr(text, 0, nl)>> \o GetLines(SubstrFrom(text, nl + 1))

\* line.find_first_not_of(" \t")
FirstNotBlank(line) ==
  LET kept == {i \in 0..(Len(line) - 1) : line[i + 1] \notin {" ", "\t"}}
  IN  IF kept = {} THEN Npos ELSE CHOOSE i \in kept : \A j \in kept : i <= j

\* one line of cleanDocstringContent: leading blanks, one "*" and one space
\* after it removed
CleanLine(line) ==
  LET start == FirstNotBlank(line)
      after_star == IF start + 1 < Len(line) /\ line[start + 2] = " "
                    THEN start + 2 ELSE start + 1
  IN  IF start = Npos THEN <<>>
      ELSE IF line[start + 1] = "*" THEN SubstrFrom(line, after_star)
      ELSE SubstrFrom(line, start)

RECURSIVE JoinLines(_)
JoinLines(lines) ==
  IF lines = <<>> THEN <<>> ELSE Head(lines) \o <<"\n">> \o JoinLines(Tail(lines))

cleanDocstringContent(raw) ==
  LET inner == IF Len(raw) >= 5 THEN Substr(raw, 3, Len(raw) - 5)
               \* length 4: the unsigned length - 5 wraps, substr runs to the end
               ELSE IF Len(raw) = 4 THEN SubstrFrom(raw, 3)
               ELSE raw
      lines == GetLines(inner)
  IN  JoinLines([i \in 1..Len(lines) |-> CleanLine(lines[i])])

\* \w of the tag patterns
IsWordChar(c) == IsAlnum(c) \/ c = "_"

\* the line matches one of the tag patterns: all of them need "@" or "\"
\* followed by a word character, and tag_regex needs nothing more
IsTagLine(line) ==
  \E i \in 1..(Len(line) - 1) : line[i] \in {"@", "\\"} /\ IsWordChar(line[i + 1])

\* the description accumulated over the lines from k on
RECURSIVE DescriptionFrom(_, _, _)
DescriptionFrom(lines, k, in_description) ==
  IF k > Len(lines) THEN <<>>
  ELSE IF IsTagLine(lines[k]) THEN DescriptionFrom(lines, k + 1, FALSE)
  ELSE (IF in_description /\ lines[k] # <<>> THEN lines[k] \o <<"\n">> ELSE <<>>)
         \o DescriptionFrom(lines, k + 1, in_description)

\* block.description as parseDocstringContent leaves it: the final
\* assignment trim(description) replaces what a brief tag had stored
Description(raw) ==
  trim(DescriptionFrom(GetLines(cleanDocstringContent(raw)), 1, TRUE))

---------------------------------------------------------------------------
(* Documentation comments (DocstringParser::extractBlockComments) *)

\* DocstringParser::getSourceLocation
getSourceLocation(text, byte_offset) ==
  LET upto == Min(byte_offset, Len(text))
      breaks == {i \in 1..upto : text[i] = "\n"}
      last_break == IF breaks = {} THEN 0
                    ELSE CHOOSE i \in breaks : \A j \in breaks : j <= i
  IN  [ line |-> 1 + Cardinality(breaks),
        column |-> 1 + (upto - last_break),
        byte_offset |-> byte_offset ]

\* The value of a TSNode member that was never written: parseDocstringContent
\* declares "DocstringBlock block;" and TSNode has no initializer, so the
\* member holds whatever the storage held, the null node or anything else
UnwrittenNode == -1
IndeterminateNodes == {NullNode, UnwrittenNode}

\* the block parseDocstringContent returns for the comment text raw, with its
\* location set; the description, parameter and tag fields are not modelled
DocstringBlockAt(text, start, raw, node) ==
  [ raw_content |-> raw,
    description |-> Description(raw),
    location |-> getSourceLocation(text, start),
    associated_node |-> node,
    namespace_path |-> <<>>,
    symbol_name |-> <<>>,
    symbol_type |-> "" ]

\* the spans [start, end) matched by the pattern /\*\*[\s\S]*?\*/ from pos on:
\* each match opens at the next "/**" and closes with the first "*/" that
\* begins after it
RECURSIVE BlockCommentSpans(_, _)
BlockCommentSpans(text, pos) ==
  LET start == Find(text, <<"/", "*", "*">>, pos)
      close == Find(text, <<"*", "/">>, start + 3)
  IN  IF start = Npos THEN <<>>
      ELSE IF close = Npos THEN <<>>
      ELSE <<[start |-> start, end |-> close + 2]>> \o BlockCommentSpans(text, close + 2)

\* DocstringParser::extractBlockComments; nodes[i] is the indeterminate
\* associated_node of the i-th block
extractBlockComments(text, nodes) ==
  LET spans == BlockCommentSpans(text, 0)
  IN  [ i \in 1..Len(spans) |->
          DocstringBlockAt(text, spans[i].start,
                           Substr(text, spans[i].start, spans[i].end - spans[i].start),
                           nodes[i]) ]

---------------------------------------------------------------------------
(* MarkdownGenerator::generateConstructFilename *)

\* std::replace(s.begin(), s.end(), from, to)
ReplaceAll(s, from, to) == [i \in 1..Len(s) |-> IF s[i] = from THEN to ELSE s[i]]

\* while ((pos = name.find("..", pos)) != npos) { name.replace(pos, 2, "."); pos += 1; }
RECURSIVE CollapseDots(_, _)
CollapseDots(name, pos) ==
  LET at == Find(name, <<".", ".">>, pos)
  IN  IF at = Npos THEN name
      ELSE CollapseDots(Substr(name, 0, at) \o <<".">> \o SubstrFrom(name, at + 2), at + 1)

\* the escapes map in its iteration order (ascending char)
Escapes ==
  << [ch |-> "\"", replacement |-> <<"%", "q", "u", "o", "t", "e">>],
     [ch |-> "*", replacement |-> <<"%", "s", "t", "a", "r">>],
     [ch |-> "/", replacement |-> <<"%", "s", "l", "a", "s", "h">>],
     [ch |-> "<", replacement |-> <<"%", "l", "t">>],
     [ch |-> ">", replacement |-> <<"%", "g", "t">>],
     [ch |-> "?", replacement |-> <<"%", "q", "u", "e", "s", "t">>],
     [ch |-> "\\", replacement |-> <<"%", "b", "s", "l", "a", "s", "h">>],
     [ch |-> "|", replacement |-> <<"%", "p", "i", "p", "e">>] >>

\* while ((pos = result.find(ch, pos)) != npos) { result.replace(pos, 1, replacement); pos += replacement.length(); }
RECURSIVE EscapeChar(_, _, _, _)
EscapeChar(escaped, ch, replacement, pos) ==
  LET at == Find(escaped, <<ch>>, pos)
  IN  IF at = Npos THEN escaped
      ELSE EscapeChar(Substr(escaped, 0, at) \o replacement \o SubstrFrom(escaped, at + 1),
                      ch, replacement, at + Len(replacement))

\* the loop over the escapes map, from entry k on
RECURSIVE EscapeFrom(_, _)
EscapeFrom(escaped, k) ==
  IF k > Len(Escapes) THEN escaped
  ELSE EscapeFrom(EscapeChar(escaped, Escapes[k].ch, Escapes[k].replacement, 0), k + 1)

\* faulty variant: nothing is escaped
escapeSymbolsForFilenameNone(name) == name

escapeSymbolsForFilename(name) == EscapeFrom(name, 1)

formatConstructType(type) ==
  CASE type = "Function" -> <<"f", "u", "n", "c", "t", "i", "o", "n">>
    [] type = "Class" -> <<"c", "l", "a", "s", "s">>
    [] type = "Struct" -> <<"s", "t", "r", "u", "c", "t">>
    [] type = "Enum" -> <<"e", "n", "u", "m">>
    [] type = "Namespace" -> <<"n", "a", "m", "e", "s", "p", "a", "c", "e">>
    [] OTHER -> <<"u", "n", "k", "n", "o", "w", "n">>

generateConstructFilename(construct) ==
  LET name == IF construct.full_name # <<>> THEN construct.full_name
              ELSE IF construct.name # <<>> THEN construct.name
              ELSE <<"u", "n", "n", "a", "m", "e", "d", "_">> \o formatConstructType(construct.type)
      dotted == CollapseDots(ReplaceAll(name, ":", "."), 0)
  IN  ReplaceAll(escapeSymbolsForFilename(dotted), " ", "_") \o <<".", "m", "d">>

---------------------------------------------------------------------------
(* CesiumDocExtractor::extractAllConstructs: the comments of the file are   *)
(* offered to the constructs that came back without a docstring             *)

\* how many lines above a construct a comment may start
ProximityLines == 10

\* the first block that starts on one of the ProximityLines lines above the
\* construct, as a docstring; none when there is no such block
RECURSIVE NearbyBlock(_, _, _)
NearbyBlock(construct, blocks, k) ==
  IF k > Len(blocks) THEN <<>>
  ELSE IF /\ blocks[k].location.line < construct.start_line
          /\ construct.start_line - blocks[k].location.line <= ProximityLines
  THEN <<IF blocks[k].description = <<>> THEN blocks[k].raw_content
         ELSE blocks[k].description>>
  ELSE NearbyBlock(construct, blocks, k + 1)

\* faulty variant: no comment is offered to any construct
WithNearbyDocstringNever(construct, blocks) == construct

\* one iteration of the loop over the constructs
WithNearbyDocstring(construct, blocks) ==
  IF construct.docstring # <<>> THEN construct
  ELSE [construct EXCEPT !.docstring = NearbyBlock(construct, blocks, 1)]

\* the tail of extractAllConstructs after extractConstructs has returned;
\* docstring_blocks is local to the call and its node member is never read
AssociateDocstrings ==
  /\ phase = "merged"
  /\ LET n == Len(BlockCommentSpans(content, 0))
         blocks == extractBlockComments(content, [i \in 1..n |-> NullNode])
     IN  constructs' = [i \in 1..Len(constructs) |->
                          WithNearbyDocstring(constructs[i], blocks)]
  /\ phase' = "documented"
  /\ UNCHANGED <<input, conflicts, treeVars, nameVars, docVars, runVars>>

---------------------------------------------------------------------------
(* Extraction of one file: the pending extractFromNode calls are kept on    *)
(* stack, the call on top runs next                                         *)

RootNode == 1

InitExtract ==
  /\ phase = "extracting"
  /\ \E unit \in TranslationUnits \cup DocumentedFiles :
       /\ tree = ParseSource(unit).tree
       /\ content = ParseSource(unit).content
  /\ filename = FileCpp
  /\ stack = <<[node |-> RootNode, namespace_path |-> <<>>]>>
  /\ constructs = <<>>
  /\ input = <<>>
  /\ conflicts = 0
  /\ test_input = <<>>
  /\ result = <<>>
  /\ docstring_blocks = <<>>
  /\ all_constructs = <<>>
  /\ files = <<>>
  /\ directory = <<>>
  /\ run = 0
  /\ cache = [files |-> {}, output_to_source |-> {}]

\* one call of extractFromNode up to its recursive calls
ExtractFromNode ==
  /\ phase = "extracting"
  /\ stack # <<>>
  /\ LET call == Head(stack)
     IN  /\ constructs' = constructs \o Emitted(call.node, call.namespace_path)
         /\ stack' = (IF Descends(call.node)
                      THEN ChildCalls(call.node, call.namespace_path)
                      ELSE <<>>) \o Tail(stack)
  /\ UNCHANGED <<phase, input, conflicts, tree, content, filename, nameVars, docVars, runVars>>

\* the call for the node on top hands a negative char to std::isspace or
\* std::isalnum; where the library checks its argument the process is ended
\* (ExtractFromNode is the outcome where the call returns false)
ExtractFromNodeAborts ==
  /\ phase = "extracting"
  /\ stack # <<>>
  /\ UndefinedCtypeCall(Head(stack).node)
  /\ phase' = "aborted"
  /\ UNCHANGED <<mergeVars, treeVars, nameVars, docVars, runVars>>

NextExtract ==
  ExtractFromNode \/ ExtractFromNodeAborts \/ MergeDuplicates \/ AssociateDocstrings

SpecExtract == InitExtract /\ [][NextExtract]_vars

---------------------------------------------------------------------------
(* The earlier extractor kept in cesium/src: the same helpers, a simpler    *)
(* extractFunction and a traversal that visits every node                   *)

\* the earlier CodeConstruct has no merge fields
LegacyConstruct(c) ==
  [ f \in DOMAIN c \ {"source_locations", "merged_docstrings", "is_merged"} |-> c[f] ]

LegacyExtractFunction(node, namespace_path) ==
  LET declarator == findChildByType(node, "function_declarator")
      name_node == findChildByType(declarator, "identifier")
  IN  LegacyConstruct(
        Located(node, "Function",
                IF declarator # NullNode /\ name_node # NullNode
                THEN Unscoped(namespace_path, getNodeText(name_node))
                ELSE NoName(namespace_path),
                <<extractReturnType(node)>>, extractParameters(node)))

LegacyEmitted(node, namespace_path) ==
  LET node_type == NodeType(node)
  IN  IF node_type = "function_definition"
      THEN <<LegacyExtractFunction(node, namespace_path)>>
      ELSE IF node_type = "class_specifier"
      THEN <<LegacyConstruct(extractClass(node, namespace_path))>>
      ELSE IF node_type = "struct_specifier"
      THEN <<LegacyConstruct(extractStruct(node, namespace_path))>>
      ELSE IF node_type = "enum_specifier"
      THEN <<LegacyConstruct(extractEnum(node, namespace_path))>>
      ELSE IF node_type = "namespace_definition"
      THEN <<LegacyConstruct(extractNamespace(node, namespace_path))>>
      ELSE <<>>

LegacyChildCalls(node, namespace_path) ==
  [ i \in 1..ChildCount(node) |->
      [ node |-> Child(node, i - 1),
        namespace_path |-> LegacyChildNamespacePath(node, namespace_path) ] ]

InitLegacy ==
  /\ phase = "legacy"
  /\ \E unit \in TranslationUnits :
       /\ tree = ParseSource(unit).tree
       /\ content = ParseSource(unit).content
  /\ filename = FileCpp
  /\ stack = <<[node |-> RootNode, namespace_path |-> <<>>]>>
  /\ constructs = <<>>
  /\ input = <<>>
  /\ conflicts = 0
  /\ test_input = <<>>
  /\ result = <<>>
  /\ docstring_blocks = <<>>
  /\ all_constructs = <<>>
  /\ files = <<>>
  /\ directory = <<>>
  /\ run = 0
  /\ cache = [files |-> {}, output_to_source |-> {}]

\* one call of the earlier extractFromNode up to its recursive calls
LegacyExtractFromNode ==
  /\ phase = "legacy"
  /\ stack # <<>>
  /\ LET call == Head(stack)
     IN  /\ constructs' = constructs \o LegacyEmitted(call.node, call.namespace_path)
         /\ stack' = LegacyChildCalls(call.node, call.namespace_path) \o Tail(stack)
  /\ UNCHANGED <<phase, input, conflicts, tree, content, filename, nameVars, docVars, runVars>>

NextLegacy == LegacyExtractFromNode

SpecLegacy == InitLegacy /\ [][NextLegacy]_vars

---------------------------------------------------------------------------
(* Properties of the traversal *)

Nodes == DOMAIN tree

\* the list the traversal pushed, before any merging
RawList == IF phase \in {"merged", "documented"} THEN input ELSE constructs

\* the nodes some construct, raw or merged, was built from
OutputNodes ==
  {RawList[i].ast_node : i \in DOMAIN RawList}
    \cup {constructs[i].ast_node : i \in DOMAIN constructs}

\* n is a proper descendant of a
RECURSIVE Inside(_, _)
Inside(n, a) ==
  LET p == tree[n].parent
  IN  p # NullNode /\ (p = a \/ Inside(p, a))

\* the name a namespace, class or struct definition gives its scope, if any
OwnScopeName(n) ==
  LET tag == IF tree[n].type = "namespace_definition" THEN "identifier"
             ELSE "type_identifier"
      named == {k \in 1..Len(tree[n].children) : tree[tree[n].children[k]].type = tag}
      first == tree[n].children[CHOOSE k \in named : \A j \in named : k <= j]
  IN  IF tree[n].type \in {"namespace_definition", "class_specifier", "struct_specifier"}
         /\ named # {}
      THEN <<SubSeq(content, tree[first].start_byte + 1, tree[first].end_byte)>>
      ELSE <<>>

\* the named scopes around n, outermost first, and the nodes opening them
RECURSIVE EnclosingNames(_)
EnclosingNames(n) ==
  LET p == tree[n].parent
  IN  IF p = NullNode THEN <<>> ELSE EnclosingNames(p) \o OwnScopeName(p)

RECURSIVE EnclosingScopes(_)
EnclosingScopes(n) ==
  LET p == tree[n].parent
  IN  IF p = NullNode THEN <<>>
      ELSE EnclosingScopes(p) \o (IF OwnScopeName(p) # <<>> THEN <<p>> ELSE <<>>)

RECURSIVE JoinScope(_)
JoinScope(names) ==
  IF names = <<>> THEN <<>>
  ELSE IF Len(names) = 1 THEN names[1]
  ELSE names[1] \o <<":", ":">> \o JoinScope(Tail(names))

NameLeafTags == {"identifier", "field_identifier", "operator_name", "destructor_name"}

\* n is a function declarator that starts with the name it declares
NamesItsFunction(n) ==
  /\ tree[n].type = "function_declarator"
  /\ tree[n].children # <<>>
  /\ tree[tree[n].children[1]].type \in NameLeafTags

\* n stands for a method written in a class body: an inline definition, or the
\* declarator of a member declaration
IsMethodNode(n) ==
  LET p == tree[n].parent
  IN  \/ /\ tree[n].type = "function_definition"
         /\ p # NullNode /\ tree[p].type = "field_declaration_list"
         /\ \E d \in Nodes : tree[d].parent = n /\ NamesItsFunction(d)
      \/ /\ NamesItsFunction(n)
         /\ p # NullNode /\ tree[p].type = "field_declaration"
         /\ tree[p].parent # NullNode
         /\ tree[tree[p].parent].type = "field_declaration_list"

\* the text of the name the method's declarator carries
MethodNameOf(n) ==
  LET declarator == IF tree[n].type = "function_declarator" THEN n
                    ELSE CHOOSE d \in Nodes :
                           tree[d].parent = n /\ tree[d].type = "function_declarator"
      leaf == tree[declarator].children[1]
  IN  SubSeq(content, tree[leaf].start_byte + 1, tree[leaf].end_byte)

\* n is a method of a class that lies directly in a top-level namespace
InClassInNamespace(n) ==
  LET scopes == EnclosingScopes(n)
  IN  /\ IsMethodNode(n)
      /\ Len(scopes) = 2
      /\ tree[scopes[1]].type = "namespace_definition"
      /\ tree[scopes[2]].type = "class_specifier"

\* the construct at position i, if it is such a method's, is named N::C::m
MethodQualified(i) ==
  LET n == RawList[i].ast_node
  IN  InClassInNamespace(n)
        => RawList[i].full_name = JoinScope(EnclosingNames(n) \o <<MethodNameOf(n)>>)

ScopePassedDown ==
  \A k \in DOMAIN stack :
    stack[k].namespace_path = JoinScope(EnclosingNames(stack[k].node))

\* C7: the construct of a method m of class C in namespace N is named
\* N::C::m, and every node is visited with the scope made of the names of the
\* namespace, class and struct definitions around it, nothing else
C7_ScopeThreading ==
  /\ \A i \in DOMAIN RawList : MethodQualified(i)
  /\ ScopePassedDown

DeletedDefinitions ==
  {n \in Nodes : tree[n].type = "function_definition"
                   /\ Contains(SubSeq(content, tree[n].start_byte + 1, tree[n].end_byte),
                               <<"=", " ", "d", "e", "l", "e", "t", "e">>)}

\* C8: a function definition whose text contains "= delete" gives no
\* construct, and neither it nor anything below it is visited after it:
\* no construct comes from one of its descendants
C8_DeletedFunctionsSkipped ==
  \A d \in DeletedDefinitions :
    /\ \A n \in OutputNodes : n # d /\ ~Inside(n, d)
    /\ \A k \in DOMAIN stack : ~Inside(stack[k].node, d)

\* C8 witness: a file with a deleted function that has a declarator and
\* parameters has been traversed to the end and merged, with constructs found
C8_Witness ==
  /\ phase = "merged"
  /\ constructs # <<>>
  /\ \E d \in DeletedDefinitions :
       \E n \in Nodes : Inside(n, d) /\ tree[n].type = "parameter_declaration"

FunctionDefinitions == {n \in Nodes : tree[n].type = "function_definition"}

\* C9: each function definition gives at most one construct and no
\* construct comes from a node below a function definition
C9_FunctionsNotReentered ==
  \A f \in FunctionDefinitions :
    /\ Cardinality({i \in DOMAIN RawList : RawList[i].ast_node = f}) <= 1
    /\ \A n \in OutputNodes : ~Inside(n, f)

---------------------------------------------------------------------------
(* Unqualified declarator texts *)

\* C11: when the text before the parameter list has no "::", the result of
\* extractFunctionNameFromText is exactly the function's own name, operator
\* keyword and symbol included, parameter list and trailing qualifiers
\* stripped.
C11_UnqualifiedNameRecovered ==
  Recovered =>
    \A n \in OwnNames, t \in ParameterTails :
      (t # <<>> /\ test_input = n \o t) => result = n

---------------------------------------------------------------------------
(* Shape of the names of the constructs returned *)

\* every construct built so far, before and after merging
AllConstructs ==
  {constructs[i] : i \in DOMAIN constructs} \cup {input[i] : i \in DOMAIN input}

\* C12: a construct with a non-empty qualified name has qualified name =
\* name when its scope is empty and scope + "::" + name otherwise, and the
\* simple name holds no "::" (a recovered name was split at its last "::").
C12_QualifiedNameShape ==
  \A c \in AllConstructs :
    c.full_name # <<>> =>
      /\ c.full_name = IF c.namespace_path = <<>> THEN c.name
                       ELSE c.namespace_path \o <<":", ":">> \o c.name
      /\ Find(c.name, <<":", ":">>, 0) = Npos

\* C13: a construct whose name could not be recovered has an empty
\* qualified name too, in whatever scope it was found, and no merged record
\* stands for such constructs.
C13_NamelessStaysUnqualified ==
  \A c \in AllConstructs :
    c.name = <<>> => (c.full_name = <<>> /\ ~c.is_merged)

---------------------------------------------------------------------------
(* Return types *)

\* the text of the first child of f, among those before its first
\* function_declarator child, that is a type; "void" when there is none
ExpectedReturnType(f) ==
  LET kids == tree[f].children
      declarators == {k \in 1..Len(kids) : tree[kids[k]].type = "function_declarator"}
      stop == IF declarators = {} THEN Len(kids) + 1
              ELSE CHOOSE k \in declarators : \A j \in declarators : k <= j
      typed == {k \in 1..(stop - 1) :
                  tree[kids[k]].type \in {"primitive_type", "type_identifier",
                                          "qualified_identifier", "template_type"}}
      first == kids[CHOOSE k \in typed : \A j \in typed : k <= j]
  IN  IF typed = {} THEN <<"v", "o", "i", "d">>
      ELSE SubSeq(content, tree[first].start_byte + 1, tree[first].end_byte)

\* the node extractReturnType is applied to for a function construct: the
\* definition itself, or the declaration around a declarator
ReturnTypeNodeOf(c) ==
  IF tree[c.ast_node].type = "function_definition" THEN c.ast_node
  ELSE tree[c.ast_node].parent

\* C14: the return type of a function construct is the text of the first
\* type child (primitive type, type identifier, qualified identifier,
\* template type) found before the function declarator, and "void" when
\* there is none.
C14_ReturnTypeFirstTypeChild ==
  \A c \in AllConstructs :
    c.type = "Function" => c.return_type = <<ExpectedReturnType(ReturnTypeNodeOf(c))>>

\* C14 witness: one file gave a function whose type child was found ("int")
\* and a function without any type child, reported as "void".
C14_Witness ==
  /\ phase = "merged"
  /\ \E c \in AllConstructs :
       /\ c.type = "Function" /\ c.return_type = <<<<"i", "n", "t">>>>
  /\ \E c \in AllConstructs :
       /\ c.type = "Function" /\ c.return_type = <<<<"v", "o", "i", "d">>>>
       /\ \A k \in 1..Len(tree[c.ast_node].children) :
            tree[tree[c.ast_node].children[k]].type # "primitive_type"

---------------------------------------------------------------------------
(* DocAssociator: the declaration a comment documents *)

\* the node types the query of findFollowingDeclaration captures
DeclarationTags ==
  { "function_definition", "class_specifier", "namespace_definition",
    "struct_specifier", "enum_specifier" }

\* the captured nodes in the order ts_query_cursor_next_match yields them
QueryMatches == SelectSeq([n \in 1..Len(tree) |-> n], LAMBDA n : tree[n].type \in DeclarationTags)

\* the while loop of findFollowingDeclaration over the remaining matches;
\* best_match = NullNode stands for best_distance = UINT32_MAX
RECURSIVE BestMatch(_, _, _, _)
BestMatch(matches, byte_offset, best_match, best_distance) ==
  IF matches = <<>> THEN best_match
  ELSE LET node == Head(matches)
           start_byte == tree[node].start_byte
           distance == start_byte - byte_offset
       IN  IF start_byte > byte_offset
              /\ (best_match = NullNode \/ distance < best_distance)
           THEN BestMatch(Tail(matches), byte_offset, node, distance)
           ELSE BestMatch(Tail(matches), byte_offset, best_match, best_distance)

findFollowingDeclaration(docstring_loc) ==
  BestMatch(QueryMatches, docstring_loc.byte_offset, NullNode, 0)

\* the first child of node with one of the given types, or the null node
FirstChildOfTypes(node, types) ==
  LET hits == {i \in 0..(ChildCount(node) - 1) : NodeType(Child(node, i)) \in types}
  IN  IF hits = {} THEN NullNode
      ELSE Child(node, CHOOSE i \in hits : \A j \in hits : i <= j)

\* the name found in the function_declarator children of node from child i
\* on: a qualified_identifier grandchild first, else an identifier
RECURSIVE DeclaratorNameFrom(_, _)
DeclaratorNameFrom(node, i) ==
  LET child == Child(node, i)
      qualified == FirstChildOfTypes(child, {"qualified_identifier"})
      simple == FirstChildOfTypes(child, {"identifier"})
  IN  IF i >= ChildCount(node) THEN NullNode
      ELSE IF NodeType(child) = "function_declarator" /\ qualified # NullNode
      THEN qualified
      ELSE IF NodeType(child) = "function_declarator" /\ simple # NullNode
      THEN simple
      ELSE DeclaratorNameFrom(node, i + 1)

getNameNode(node) ==
  LET in_declarator == IF NodeType(node) = "function_definition"
                       THEN DeclaratorNameFrom(node, 0) ELSE NullNode
  IN  IF in_declarator # NullNode THEN in_declarator
      ELSE FirstChildOfTypes(node, {"identifier", "type_identifier"})

extractSymbolName(node) ==
  IF getNameNode(node) = NullNode THEN <<>> ELSE getNodeText(getNameNode(node))

RECURSIVE joinPath(_, _)
joinPath(parts, separator) ==
  IF parts = <<>> THEN <<>>
  ELSE IF Len(parts) = 1 THEN parts[1]
  ELSE parts[1] \o separator \o joinPath(Tail(parts), separator)

\* the path parts collected from current upwards, outermost first
RECURSIVE PathParts(_)
PathParts(current) ==
  IF current = NullNode THEN <<>>
  ELSE PathParts(tree[current].parent)
         \o (IF NodeType(current) \in {"namespace_definition", "class_specifier"}
                /\ getNameNode(current) # NullNode
             THEN <<getNodeText(getNameNode(current))>>
             ELSE <<>>)

extractNamespacePath(node) == joinPath(PathParts(node), <<":", ":">>)

\* one iteration of the loop of associateDocsWithNodes
Associated(block) ==
  LET following_node == findFollowingDeclaration(block.location)
  IN  IF following_node # NullNode
      THEN [block EXCEPT !.associated_node = following_node,
                         !.namespace_path = extractNamespacePath(following_node),
                         !.symbol_name = extractSymbolName(following_node),
                         !.symbol_type = NodeType(following_node)]
      ELSE block

---------------------------------------------------------------------------
(* The files whose comments are associated: up to MaxItems comments and     *)
(* declarations in a row                                                    *)

MaxItems == 3

\* struct S { } mk() { }   the function and its return type start together
StructReturningFunction ==
  Inner("function_definition", <<"\n">>,
        << Inner("struct_specifier", <<>>,
                 << Leaf("struct", <<>>, <<"s", "t", "r", "u", "c", "t">>),
                    Leaf("type_identifier", <<" ">>, <<"S">>),
                    Inner("field_declaration_list", <<" ">>,
                          <<Leaf("{", <<>>, <<"{">>), Leaf("}", <<" ">>, <<"}">>)>>) >>),
           FunctionDeclarator(Leaf("identifier", <<>>, <<"m", "k">>), EmptyParameterList),
           EmptyBody >>)

\* namespace N { class C { /** c */ void m() { } }; }
DocumentedMethod ==
  Inner("namespace_definition", <<"\n">>,
        << Leaf("namespace", <<>>, <<"n", "a", "m", "e", "s", "p", "a", "c", "e">>),
           Leaf("identifier", <<" ">>, <<"N">>),
           Inner("declaration_list", <<" ">>,
                 << Leaf("{", <<>>, <<"{">>),
                    Inner("class_specifier", <<" ">>,
                          << Leaf("class", <<>>, <<"c", "l", "a", "s", "s">>),
                             Leaf("type_identifier", <<" ">>, <<"C">>),
                             Inner("field_declaration_list", <<" ">>,
                                   << Leaf("{", <<>>, <<"{">>),
                                      Leaf("comment", <<" ">>, <<"/", "*", "*", " ", "c", " ", "*", "/">>),
                                      InlineMethod(Leaf("field_identifier", <<>>, <<"m">>),
                                                   EmptyParameterList),
                                      Leaf("}", <<" ">>, <<"}">>) >>) >>),
                    Leaf(";", <<>>, <<";">>),
                    Leaf("}", <<" ">>, <<"}">>) >>) >>)

\* enum E { };
EnumDefinition ==
  Inner("enum_specifier", <<"\n">>,
        << Leaf("enum", <<>>, <<"e", "n", "u", "m">>),
           Leaf("type_identifier", <<" ">>, <<"E">>),
           Inner("enumerator_list", <<" ">>,
                 <<Leaf("{", <<>>, <<"{">>), Leaf("}", <<" ">>, <<"}">>)>>) >>)

FileItems ==
  { Leaf("comment", <<"\n">>, <<"/", "*", "*", " ", "a", " ", "*", "/">>),
    Leaf("comment", <<"\n">>, <<"/", "*", "*", "/">>),
    Leaf("comment", <<" ">>, <<"/", "*", " ", "x", " ", "*", "/">>),
    OutOfLineMethod,
    [PointerFunction EXCEPT !.ws = <<>>],
    StructReturningFunction,
    DocumentedMethod,
    FunctionPrototype,
    EnumDefinition }

ItemRows == UNION {[1..n -> FileItems] : n \in 1..MaxItems}

DocumentedUnits == {Inner("translation_unit", <<>>, row) : row \in ItemRows}

---------------------------------------------------------------------------
(* CesiumDocExtractor::extractFromFile *)

InitAssociate ==
  /\ phase = "reading"
  /\ \E unit \in DocumentedUnits :
       /\ tree = ParseSource(unit).tree
       /\ content = ParseSource(unit).content
  /\ filename = FileCpp
  /\ stack = <<>>
  /\ constructs = <<>>
  /\ input = <<>>
  /\ conflicts = 0
  /\ test_input = <<>>
  /\ result = <<>>
  /\ docstring_blocks = <<>>
  /\ all_constructs = <<>>
  /\ files = <<>>
  /\ directory = <<>>
  /\ run = 0
  /\ cache = [files |-> {}, output_to_source |-> {}]

\* docstring_parser_.extractDocstrings(content, "/** */")
ExtractDocstrings ==
  /\ phase = "reading"
  /\ \E nodes \in [1..Len(BlockCommentSpans(content, 0)) -> IndeterminateNodes] :
       docstring_blocks' = extractBlockComments(content, nodes)
  /\ phase' = "parsed"
  /\ UNCHANGED <<mergeVars, treeVars, nameVars, runVars>>

\* doc_associator_.associateDocsWithNodes(docstring_blocks, tree, content)
AssociateDocsWithNodes ==
  /\ phase = "parsed"
  /\ docstring_blocks' = [i \in 1..Len(docstring_blocks) |-> Associated(docstring_blocks[i])]
  /\ phase' = "associated"
  /\ UNCHANGED <<mergeVars, treeVars, nameVars, runVars>>

NextAssociate == ExtractDocstrings \/ AssociateDocsWithNodes

SpecAssociate == InitAssociate /\ [][NextAssociate]_vars

\* the first byte after the comment of a block
CommentEnd(block) == block.location.byte_offset + Len(block.raw_content)

\* the declarations that start after the comment, with their distances
Following(block) ==
  {n \in Nodes : /\ tree[n].type \in {"function_definition", "class_specifier",
                                      "namespace_definition", "struct_specifier",
                                      "enum_specifier"}
                 /\ tree[n].start_byte - CommentEnd(block) > 0}

Nearest(block) ==
  CHOOSE n \in Following(block) :
    \A o \in Following(block) :
      \/ tree[n].start_byte < tree[o].start_byte
      \/ (tree[n].start_byte = tree[o].start_byte /\ n <= o)

\* C15: after association every comment block holds the declaration nearest
\* after the end of the comment (the first in traversal order among equally
\* near ones), and a block no declaration follows holds the null node and
\* empty symbol name, type and namespace.
C15_NearestFollowingDeclaration ==
  phase = "associated" =>
    \A i \in DOMAIN docstring_blocks :
      LET block == docstring_blocks[i]
      IN  IF Following(block) = {}
          THEN /\ block.associated_node = NullNode
               /\ block.symbol_name = <<>>
               /\ block.symbol_type = ""
               /\ block.namespace_path = <<>>
          ELSE block.associated_node = Nearest(block)

---------------------------------------------------------------------------
(* The file of the end-to-end scenario *)

AddSource == <<"/", "*", "*", " ", "A", "d", "d", " ", "t", "w", "o", " ", "n", "u", "m", "b", "e", "r", "s", " ", "*", "/", "\n", "i", "n", "t", " ", "a", "d", "d", "(", "i", "n", "t", " ", "a", ",", " ", "i", "n", "t", " ", "b", ")", " ", "{", " ", "r", "e", "t", "u", "r", "n", " ", "a", " ", "+", " ", "b", ";", " ", "}">>

\* what extractAllConstructs has returned once the file is processed
Returned == phase = "documented"

---------------------------------------------------------------------------
(* Extraction runs to its end *)

\* C17: extraction never fails hard: for a tree whose byte spans lie within
\* the text no step of a call of extractFromNode makes a library call outside
\* its domain, and the run is never ended before extractConstructs returns
C17_NeverFailsHard ==
  /\ phase # "aborted"
  /\ (phase = "extracting" /\ stack # <<>>) => ~UndefinedCtypeCall(Head(stack).node)

---------------------------------------------------------------------------
(* CesiumDocExtractor::extract: the files of the source directories are     *)
(* extracted one after the other and their constructs handed to the         *)
(* Markdown generator                                                       *)

FileOther == <<"y", ".", "c", "p", "p">>

\* x.h: class C { void m(); };
HeaderFile ==
  [ name |-> FileH,
    last_write_time |-> 1,
    unit |-> Inner("translation_unit", <<>>,
                   <<ClassLike("class_specifier",
                               Leaf("class", <<>>, <<"c", "l", "a", "s", "s">>), <<>>,
                               DeclaredMethod(Leaf("identifier", <<>>, <<"m">>),
                                              EmptyParameterList))>>) ]

\* x.cpp: void C::m() { }
SourceFile ==
  [ name |-> FileCpp, last_write_time |-> 1,
    unit |-> Inner("translation_unit", <<>>, <<OutOfLineMethod>>) ]

\* y.cpp: int add(int a, int b) { return a + b; }
OtherFile ==
  [ name |-> FileOther, last_write_time |-> 2,
    unit |-> Inner("translation_unit", <<>>, <<AddFunction(<<>>)>>) ]

\* the directory listings: two files in either order
Runs ==
  LET listed == {HeaderFile, SourceFile, OtherFile}
  IN  {listing \in listed \X listed : listing[1] # listing[2]}

\* a std::unordered_map is a set of <<key, value>> pairs with one pair per key
\* at most: map[key] = value
Put(map, key, value) == {e \in map : e[1] # key} \cup {<<key, value>>}

\* map.erase(key)
Erase(map, key) == {e \in map : e[1] # key}

\* the files of the source directory at path
OnDisk(source_path) ==
  {directory[i] : i \in {j \in 1..Len(directory) : directory[j].name = source_path}}

\* the hash of the text of the file, "" when it cannot be opened; the text
\* stands for its std::hash
calculateFileHash(source_path) ==
  IF OnDisk(source_path) = {} THEN <<>>
  ELSE ParseSource((CHOOSE f \in OnDisk(source_path) : TRUE).unit).content

\* fileTimeToString(std::filesystem::last_write_time(source_path))
LastModifiedStr(source_path) == (CHOOSE f \in OnDisk(source_path) : TRUE).last_write_time

\* needsExtraction: every generated file the cache lists is still in the
\* extract directory, where no file is ever deleted
needsExtraction(source_path) ==
  IF OnDisk(source_path) = {} THEN FALSE
  ELSE LET it == {e \in cache.files : e[1] = source_path}
           metadata == (CHOOSE e \in it : TRUE)[2]
       IN  IF it = {} THEN TRUE
           ELSE IF LastModifiedStr(source_path) # metadata.last_modified_str THEN TRUE
           ELSE IF calculateFileHash(source_path) # metadata.content_hash THEN TRUE
           ELSE FALSE

\* the entries generated_file -> source_path of generated_files[k..] put into
\* output_to_source
PutOutputs(output_to_source, generated_files, source_path, k) ==
  LET RECURSIVE From(_, _)
      From(map, i) ==
        IF i > Len(generated_files) THEN map
        ELSE From(Put(map, generated_files[i], source_path), i + 1)
  IN  From(output_to_source, k)

\* updateFile; last_write_time throws for a file that is not there, and the
\* catch block leaves the cache as it was
updateFile(c, source_path, generated_files, construct_count) ==
  IF OnDisk(source_path) = {} THEN c
  ELSE LET metadata == [ source_path |-> source_path,
                         content_hash |-> calculateFileHash(source_path),
                         last_modified_str |-> LastModifiedStr(source_path),
                         generated_files |-> generated_files,
                         construct_count |-> construct_count ]
       IN  [ files |-> Put(c.files, source_path, metadata),
             output_to_source |->
               PutOutputs(c.output_to_source, generated_files, source_path, 1) ]

\* removeFile
removeFile(c, source_path) ==
  LET it == {e \in c.files : e[1] = source_path}
      listed == (CHOOSE e \in it : TRUE)[2].generated_files
  IN  IF it = {} THEN c
      ELSE [ files |-> Erase(c.files, source_path),
             output_to_source |->
               {e \in c.output_to_source :
                  \A i \in 1..Len(listed) : e[1] # listed[i]} ]

\* cacheToJson writes the entries of files in the order the unordered_map
\* iterates them, which is any order
cacheToJson(c) ==
  {json \in [1..Cardinality(c.files) -> c.files] :
     \A i, j \in 1..Cardinality(c.files) : i # j => json[i] # json[j]}

\* cacheFromJson reads the entries in the order they are written and builds
\* output_to_source from their generated_files
cacheFromJson(json) ==
  LET RECURSIVE Read(_, _)
      Read(i, map) ==
        IF i > Len(json) THEN map
        ELSE Read(i + 1, PutOutputs(map, json[i][2].generated_files, json[i][1], 1))
  IN  [ files |-> {json[i] : i \in 1..Len(json)},
        output_to_source |-> Read(1, {}) ]

extract_dir == <<"d", "o", "c", "s">>

\* generateMarkdownFromConstructs: the paths of the files written
generateMarkdownFromConstructs(cs, output_dir) ==
  [i \in 1..Len(cs) |-> output_dir \o <<"/">> \o generateConstructFilename(cs[i])]

MaxRuns == 2

\* the first run finds no cache file
InitRun ==
  /\ phase = "listing"
  /\ directory \in Runs
  /\ files = directory
  /\ run = 1
  /\ cache = [files |-> {}, output_to_source |-> {}]
  /\ all_constructs = <<>>
  /\ tree = <<>>
  /\ content = <<>>
  /\ filename = <<>>
  /\ stack = <<>>
  /\ constructs = <<>>
  /\ input = <<>>
  /\ conflicts = 0
  /\ test_input = <<>>
  /\ result = <<>>
  /\ docstring_blocks = <<>>

\* the next directory entry needs extraction: extractAllConstructs reads and
\* parses it and calls extractConstructs
ExtractNextFile ==
  /\ phase = "listing"
  /\ files # <<>>
  /\ needsExtraction(Head(files).name)
  /\ phase' = "extracting"
  /\ tree' = ParseSource(Head(files).unit).tree
  /\ content' = ParseSource(Head(files).unit).content
  /\ filename' = Head(files).name
  /\ stack' = <<[node |-> RootNode, namespace_path |-> <<>>]>>
  /\ constructs' = <<>>
  /\ input' = <<>>
  /\ conflicts' = 0
  /\ UNCHANGED <<nameVars, docVars, runVars>>

\* the cache says the next directory entry needs no extraction
SkipCachedFile ==
  /\ phase = "listing"
  /\ files # <<>>
  /\ ~needsExtraction(Head(files).name)
  /\ files' = Tail(files)
  /\ UNCHANGED <<phase, mergeVars, treeVars, nameVars, docVars, all_constructs,
                 directory, run, cache>>

\* all_constructs.insert(all_constructs.end(), constructs.begin(), constructs.end())
CollectConstructs ==
  /\ phase = "documented"
  /\ files # <<>>
  /\ all_constructs' = all_constructs \o constructs
  /\ files' = Tail(files)
  /\ phase' = "listing"
  /\ UNCHANGED <<mergeVars, treeVars, nameVars, docVars, directory, run, cache>>

\* every directory is done: generateMarkdownFromConstructs(all_constructs,
\* extract_dir), then the cache entry of the file of the first construct is
\* written and the cache saved
GenerateMarkdown ==
  /\ phase = "listing"
  /\ files = <<>>
  /\ phase' = "generating"
  /\ cache' = IF all_constructs # <<>>
              THEN updateFile(cache, all_constructs[1].filename,
                              generateMarkdownFromConstructs(all_constructs, extract_dir),
                              Len(all_constructs))
              ELSE cache
  /\ UNCHANGED <<mergeVars, treeVars, nameVars, docVars, all_constructs, files,
                 directory, run>>

\* the extractor is started again with no file changed: initialize loads the
\* cache file, verifyIntegrity finds every generated file in place and listed,
\* extract walks the directory again
ExtractAgain ==
  /\ phase = "generating"
  /\ run < MaxRuns
  /\ run' = run + 1
  /\ \E json \in cacheToJson(cache) : cache' = cacheFromJson(json)
  /\ files' = directory
  /\ all_constructs' = <<>>
  /\ phase' = "listing"
  /\ UNCHANGED <<mergeVars, treeVars, nameVars, docVars, directory>>

NextRun ==
  \/ ExtractNextFile
  \/ SkipCachedFile
  \/ ExtractFromNode
  \/ MergeDuplicates
  \/ AssociateDocstrings
  \/ CollectConstructs
  \/ GenerateMarkdown
  \/ ExtractAgain

SpecRun == InitRun /\ [][NextRun]_vars

\* the source files the first run processed: every file of the directory is
\* listed and, with no cache file yet, extracted
ProcessedByFirstRun == {directory[i].name : i \in 1..Len(directory)}

\* C26: a second run with no source file and no generated file changed finds
\* needsExtraction false for every source file the first run processed, and
\* extracts none of them again
C26_SecondRunExtractsNothing ==
  run > 1 =>
    /\ \A source_path \in ProcessedByFirstRun : ~needsExtraction(source_path)
    /\ phase \notin {"extracting", "merged", "documented"}

\* the positions of the list handed to the renderer that hold qualified name n
RenderedAs(n) == {i \in 1..Len(all_constructs) : all_constructs[i].full_name = n}

\* C18: the construct list handed to the Markdown renderer after a run over
\* several files is deduplicated: every non-empty qualified name occurs in it
\* at most once
C18_RendererGetsEachNameOnce ==
  phase = "generating" =>
    \A i \in 1..Len(all_constructs) :
      all_constructs[i].full_name # <<>> =>
        Cardinality(RenderedAs(all_constructs[i].full_name)) = 1

---------------------------------------------------------------------------
(* A method declared in its class and defined out of line *)

\* f is a function definition that lies directly in namespaces and whose
\* declarator starts with a qualified identifier; the text of that identifier
QualifiedDeclaratorText(f) ==
  LET declarators == {d \in Nodes : tree[d].parent = f /\ tree[d].type = "function_declarator"}
      d == CHOOSE x \in declarators : TRUE
      q == tree[d].children[1]
  IN  IF /\ tree[f].type = "function_definition"
         /\ declarators # {}
         /\ tree[d].children # <<>>
         /\ tree[q].type = "qualified_identifier"
      THEN <<SubSeq(content, tree[q].start_byte + 1, tree[q].end_byte)>>
      ELSE <<>>

\* d is the declaration of method m in class C of namespace N and f, lying in
\* namespace N, defines C::m
DefinesOutOfLine(d, f) ==
  /\ InClassInNamespace(d)
  /\ QualifiedDeclaratorText(f) # <<>>
  /\ EnclosingNames(f) = <<EnclosingNames(d)[1]>>
  /\ QualifiedDeclaratorText(f)[1] = EnclosingNames(d)[2] \o <<":", ":">> \o MethodNameOf(d)

\* the positions of the returned list that hold qualified name n
ReturnedAs(n) == {k \in 1..Len(constructs) : constructs[k].full_name = n}

\* C19: the construct of a method declared in class C of namespace N and the
\* construct of its out-of-line definition C::m in namespace N carry the same
\* qualified name, and the merge returns one merged record for the two
C19_DeclarationMeetsDefinition ==
  \A i, j \in DOMAIN RawList :
    DefinesOutOfLine(RawList[i].ast_node, RawList[j].ast_node) =>
      /\ RawList[i].full_name = RawList[j].full_name
      /\ phase = "merged" =>
           /\ Cardinality(ReturnedAs(RawList[i].full_name)) = 1
           /\ \A k \in ReturnedAs(RawList[i].full_name) : constructs[k].is_merged

---------------------------------------------------------------------------
(* The doc comments of a declaration and of its definition *)

\* the statement a construct was built from: the node itself, or the
\* declaration around its declarator
StatementOf(n) ==
  IF tree[n].type = "function_declarator" THEN tree[n].parent ELSE n

\* the doc comment that stands directly before statement n, if there is one
DocCommentBefore(n) ==
  LET siblings == tree[tree[n].parent].children
      at == CHOOSE k \in DOMAIN siblings : siblings[k] = n
      c == siblings[at - 1]
      text == SubSeq(content, tree[c].start_byte + 1, tree[c].end_byte)
  IN  IF /\ tree[n].parent # NullNode
         /\ at > 1
         /\ tree[c].type = "comment"
         /\ MatchAt(text, <<"/", "*", "*">>, 0)
      THEN <<text>>
      ELSE <<>>

\* the record returned for the name of raw constructs i and j holds the text
\* of the doc comments before both of them
BothCommentsKept(i, j) ==
  LET first == DocCommentBefore(StatementOf(input[i].ast_node))
      second == DocCommentBefore(StatementOf(input[j].ast_node))
  IN  (first # <<>> /\ second # <<>>) =>
        \E k \in DOMAIN constructs :
          /\ constructs[k].full_name = input[i].full_name
          /\ constructs[k].docstring # <<>>
          /\ Contains(constructs[k].docstring[1], Description(first[1]))
          /\ Contains(constructs[k].docstring[1], Description(second[1]))

\* C20: when a declaration and a definition of one qualified name each stand
\* directly behind a doc comment of their own, the record extractAllConstructs
\* returns for the name has a doc comment holding the text of both comments
C20_BothDocCommentsKept ==
  Returned =>
    \A i, j \in DOMAIN input :
      (i < j /\ input[i].full_name # <<>> /\ input[i].full_name = input[j].full_name)
        => BothCommentsKept(i, j)

---------------------------------------------------------------------------
(* Conflicts counted by mergeDuplicateConstructs *)

\* input positions i and j hold the same qualified name with doc comments
\* that are both non-empty and differ
DocsDiffer(i, j) ==
  /\ input[i].full_name # <<>>
  /\ input[i].full_name = input[j].full_name
  /\ HasDocText(input[i])
  /\ HasDocText(input[j])
  /\ input[i].docstring[1] # input[j].docstring[1]

\* input positions i and j hold the same qualified name with parameter lists
\* of different length
ParametersDiffer(i, j) ==
  /\ input[i].full_name # <<>>
  /\ input[i].full_name = input[j].full_name
  /\ Len(input[i].parameters) # Len(input[j].parameters)

\* two occurrences with differing doc comments are counted wherever they stand
DifferingDocsCounted ==
  (\E i, j \in DOMAIN input : DocsDiffer(i, j)) => conflicts >= 1

\* without differing doc comments or parameter counts nothing is counted
EqualDocsNotCounted ==
  (\A i, j \in DOMAIN input : ~DocsDiffer(i, j) /\ ~ParametersDiffer(i, j))
    => conflicts = 0

\* C21: for any two occurrences of a qualified name whose doc comments are
\* both non-empty and differ, mergeDuplicateConstructs counts at least one
\* conflict, whichever positions they hold in the bucket; occurrences with
\* identical doc text are not counted as a documentation conflict
C21_ConflictsPairwise ==
  Merged => (DifferingDocsCounted /\ EqualDocsNotCounted)

---------------------------------------------------------------------------
(* Parameters *)

NodeText(n) == SubSeq(content, tree[n].start_byte + 1, tree[n].end_byte)

\* the children of n that have type tag, in order
ChildrenOfType(n, tag) ==
  SelectSeq(tree[n].children, LAMBDA k : tree[k].type = tag)

\* the type a parameter's first child stands for: a pointer or reference
\* declarator adds "*" or "&" to the type of its own first child
RECURSIVE ExpectedTypeName(_)
ExpectedTypeName(n) ==
  IF tree[n].type \in {"pointer_declarator", "reference_declarator"}
     /\ tree[n].children # <<>>
  THEN ExpectedTypeName(tree[n].children[1])
         \o (IF tree[n].type = "pointer_declarator" THEN <<"*">> ELSE <<"&">>)
  ELSE NodeText(n)

ExpectedParameter(p) ==
  [ type |-> IF tree[p].children = <<>> THEN <<>>
             ELSE ExpectedTypeName(tree[p].children[1]),
    name |-> IF ChildrenOfType(p, "identifier") = <<>> THEN <<>>
             ELSE NodeText(ChildrenOfType(p, "identifier")[1]),
    default_value |-> <<>> ]

\* one entry per parameter declaration of the parameter list of the
\* declarator construct c was built from
ExpectedParameters(c) ==
  LET n == c.ast_node
      declarators == IF tree[n].type = "function_declarator" THEN <<n>>
                     ELSE ChildrenOfType(n, "function_declarator")
      lists == IF declarators = <<>> THEN <<>>
               ELSE ChildrenOfType(declarators[1], "parameter_list")
      declared == IF lists = <<>> THEN <<>>
                  ELSE ChildrenOfType(lists[1], "parameter_declaration")
  IN  [k \in 1..Len(declared) |-> ExpectedParameter(declared[k])]

\* C22: every function construct, from a definition or from a bare
\* declarator, has one parameter entry for each parameter declaration of its
\* declarator's parameter list, in order, with the type of the first child,
\* the name of the identifier child and no default value
C22_ParametersOfDeclarator ==
  \A i \in DOMAIN RawList :
    RawList[i].type = "Function" => RawList[i].parameters = ExpectedParameters(RawList[i])

---------------------------------------------------------------------------
(* The comment found before a construct *)

\* the doc comment the 100 bytes before byte s hold: from the last "/**" in
\* them through the first "*/" behind it, if that lies before s
CommentInWindow(s) ==
  LET from == IF s > DocWindow THEN s - DocWindow ELSE 0
      markers == {m \in from..(s - 3) : MatchAt(content, <<"/", "*", "*">>, m)}
      last == CHOOSE m \in markers : \A o \in markers : o <= m
      closers == {e \in last..(s - 1) : MatchAt(content, <<"*", "/">>, e)}
      first == CHOOSE e \in closers : \A o \in closers : e <= o
  IN  IF markers = {} THEN <<>>
      ELSE IF closers = {} THEN <<>>
      ELSE <<SubSeq(content, last + 1, first + 2)>>

\* C23: findNearbyDocstring looks at the up to 100 bytes before the start of
\* the construct, wherever it starts: with a "/**" in them whose first "*/"
\* lies before the construct it returns the text from that "/**" through that
\* "*/", otherwise nothing
C23_NearbyDocstringWindow ==
  \A i \in DOMAIN RawList :
    RawList[i].docstring = CommentInWindow(tree[RawList[i].ast_node].start_byte)

---------------------------------------------------------------------------
(* The bare word operator before the first parenthesis *)

\* the text before the first "(" of the declarator text, trailing whitespace
\* removed; empty when there is no "("
CapturedBeforeParameters ==
  LET opening == {k \in 1..Len(test_input) : test_input[k] = "("}
      first == CHOOSE k \in opening : \A o \in opening : k <= o
  IN  IF opening = {} THEN <<>> ELSE TrimRight(SubSeq(test_input, 1, first - 1))

\* C24: when only the bare word operator is captured before the parameter
\* list, as for the call operator in "operator()(int x)",
\* extractFunctionNameFromText returns operator followed by the operator
\* symbol, never the bare word
C24_BareOperatorCompleted ==
  (Recovered /\ CapturedBeforeParameters = OperatorKw) =>
    /\ result # OperatorKw
    /\ Len(result) > Len(OperatorKw)
    /\ SubSeq(result, 1, Len(OperatorKw)) = OperatorKw

---------------------------------------------------------------------------
(* The file names of rendered constructs *)

\* the scopes and own names the rendered constructs are made of
FileScopes == {<<>>, <<"N", ":", ":">>, <<"N", ":", ":", "C", ":", ":">>, <<":", ":">>}

FileOwnNames ==
  { <<>>, <<"f">>, <<"T", "<", "i", "n", "t", ">">>, <<"o", "p", "e", "r", "a", "t", "o", "r", "<">>, <<"o", "p", "e", "r", "a", "t", "o", "r", ">">>, <<"o", "p", "e", "r", "a", "t", "o", "r", "<", "<">>, <<"o", "p", "e", "r", "a", "t", "o", "r", "-", ">">>,
    <<"o", "p", "e", "r", "a", "t", "o", "r", "*">>, <<"o", "p", "e", "r", "a", "t", "o", "r", "/">>, <<"o", "p", "e", "r", "a", "t", "o", "r", "|">>, <<"o", "p", "e", "r", "a", "t", "o", "r", "?">>, <<"o", "p", "e", "r", "a", "t", "o", "r", "\\">>,
    <<"o", "p", "e", "r", "a", "t", "o", "r", "\"", "\"", "_", "k">>, <<"o", "p", "e", "r", "a", "t", "o", "r", " ", "b", "o", "o", "l">>, <<"o", "p", "e", "r", "a", "t", "o", "r", "(", ")">>, <<"o", "p", "e", "r", "a", "t", "o", "r", "*", "/", "<", ">">> }

\* constructs as the extractor returns them; some carry a name only
RenderedConstructs ==
  {NewConstruct(o, q \o n, <<>>) : o \in Occurrences, q \in FileScopes, n \in FileOwnNames}
    \cup {[NewConstruct(o, <<>>, <<>>) EXCEPT !.name = n] :
            o \in Occurrences, n \in FileOwnNames}

InitFilename ==
  /\ phase = "rendering"
  /\ \E c \in RenderedConstructs : constructs = <<c>>
  /\ result = <<>>
  /\ test_input = <<>>
  /\ input = <<>>
  /\ conflicts = 0
  /\ tree = <<>>
  /\ content = <<>>
  /\ filename = <<>>
  /\ stack = <<>>
  /\ docstring_blocks = <<>>
  /\ all_constructs = <<>>
  /\ files = <<>>
  /\ directory = <<>>
  /\ run = 0
  /\ cache = [files |-> {}, output_to_source |-> {}]

\* std::string filename = generateConstructFilename(construct)
GenerateConstructFilename ==
  /\ phase = "rendering"
  /\ result' = generateConstructFilename(constructs[1])
  /\ phase' = "filename"
  /\ UNCHANGED <<test_input, mergeVars, treeVars, docVars, runVars>>

NextFilename == GenerateConstructFilename

SpecFilename == InitFilename /\ [][NextFilename]_vars

PathHostile == {"<", ">", ":", "\"", "|", "?", "*", "\\", "/"}

\* the escape token of a hostile character other than ":"
TokenOf(ch) == Escapes[CHOOSE k \in DOMAIN Escapes : Escapes[k].ch = ch].replacement

\* a name with every "::" turned into "." and every other hostile character
\* into its token; a blank becomes "_"
RECURSIVE FileSafe(_)
FileSafe(s) ==
  IF s = <<>> THEN <<>>
  ELSE IF Len(s) >= 2 /\ s[1] = ":" /\ s[2] = ":"
  THEN <<".">> \o FileSafe(SubSeq(s, 3, Len(s)))
  ELSE IF s[1] \in PathHostile \ {":"} THEN TokenOf(s[1]) \o FileSafe(Tail(s))
  ELSE IF s[1] = " " THEN <<"_">> \o FileSafe(Tail(s))
  ELSE <<s[1]>> \o FileSafe(Tail(s))

\* the name the file is made from: the qualified name, else the simple name
NameRendered(c) == IF c.full_name # <<>> THEN c.full_name ELSE c.name

---------------------------------------------------------------------------
(* DocumentationCache: updateFile, removeFile and clear in any order *)

CachedSources == {FileH, FileOther}

Outputs == {<<"d", "o", "c", "s", "/", "C", ".", "m", "d">>, <<"d", "o", "c", "s", "/", "a", "d", "d", ".", "m", "d">>}

\* the lists of generated files handed to updateFile
GeneratedLists ==
  {<<>>} \cup {<<o>> : o \in Outputs}
         \cup {<<o, p>> : o \in Outputs, p \in Outputs}

\* a cache constructed on a directory of two source files
InitCache ==
  /\ phase = "cache"
  /\ directory = <<HeaderFile, OtherFile>>
  /\ cache = [files |-> {}, output_to_source |-> {}]
  /\ run = 0
  /\ files = <<>>
  /\ all_constructs = <<>>
  /\ tree = <<>>
  /\ content = <<>>
  /\ filename = <<>>
  /\ stack = <<>>
  /\ constructs = <<>>
  /\ input = <<>>
  /\ conflicts = 0
  /\ test_input = <<>>
  /\ result = <<>>
  /\ docstring_blocks = <<>>

UpdateFile ==
  /\ phase = "cache"
  /\ \E source_path \in CachedSources, generated_files \in GeneratedLists :
       cache' = updateFile(cache, source_path, generated_files, Len(generated_files))
  /\ UNCHANGED <<phase, mergeVars, treeVars, nameVars, docVars, all_constructs,
                 files, directory, run>>

RemoveFile ==
  /\ phase = "cache"
  /\ \E source_path \in CachedSources : cache' = removeFile(cache, source_path)
  /\ UNCHANGED <<phase, mergeVars, treeVars, nameVars, docVars, all_constructs,
                 files, directory, run>>

\* clear
Clear ==
  /\ phase = "cache"
  /\ cache' = [files |-> {}, output_to_source |-> {}]
  /\ UNCHANGED <<phase, mergeVars, treeVars, nameVars, docVars, all_constructs,
                 files, directory, run>>

NextCache == UpdateFile \/ RemoveFile \/ Clear

SpecCache == InitCache /\ [][NextCache]_vars

\* the entry of files for source_path lists output among its generated_files
Lists(source_path, output) ==
  \E e \in cache.files :
    /\ e[1] = source_path
    /\ \E i \in 1..Len(e[2].generated_files) : e[2].generated_files[i] = output

\* C30: after any sequence of updateFile, removeFile and clear calls
\* output_to_source holds the entry output -> source exactly when files has
\* an entry for that source whose generated_files lists that output
C30_MappingConsistent ==
  \A output \in Outputs, source_path \in CachedSources :
    (<<output, source_path>> \in cache.output_to_source) <=> Lists(source_path, output)

---------------------------------------------------------------------------
(* mergeDuplicateConstructs keeps every construct *)

\* "<filename>:<start_line>" of the construct at position i of the input
InputLocation(i) == input[i].filename \o <<":">> \o LineText[input[i].start_line]

\* C27: the merge loses no construct: the output has one record per distinct
\* non-empty qualified name of the input plus one per input construct with an
\* empty qualified name, and every input construct is in the output unchanged
\* or has its "<filename>:<start_line>" among the source_locations of the
\* merged record that bears its qualified name
C27_MergeLosesNoConstruct ==
  Merged =>
    /\ Len(constructs) = Cardinality(InputNames) + Cardinality(InputPositions(<<>>))
    /\ \A i \in DOMAIN input :
         \/ \E j \in DOMAIN constructs : constructs[j] = input[i]
         \/ \E j \in OutputPositions(input[i].full_name) :
              /\ constructs[j].is_merged
              /\ \E k \in DOMAIN constructs[j].source_locations :
                   constructs[j].source_locations[k] = InputLocation(i)

\* two constructs of one name and one without a name were merged to two records
C27_Witness ==
  /\ Merged
  /\ Len(input) = 3
  /\ \E n \in InputNames : Cardinality(InputPositions(n)) = 2
  /\ InputPositions(<<>>) # {}
  /\ Len(constructs) = 2
  /\ \E j \in DOMAIN constructs : constructs[j].is_merged

---------------------------------------------------------------------------
(* A comment and the construct directly behind it *)

\* the byte at which the last "/**" before byte s starts; Npos without one
LastDocCommentBefore(s) ==
  LET markers == {m \in 0..(s - 3) : MatchAt(content, <<"/", "*", "*">>, m)}
  IN  IF markers = {} THEN Npos ELSE CHOOSE m \in markers : \A o \in markers : o <= m

\* an extracted construct begins behind the comment that starts at byte c and
\* before byte s
ConstructBetween(c, s) ==
  \E j \in DOMAIN RawList :
    /\ c < tree[RawList[j].ast_node].start_byte
    /\ tree[RawList[j].ast_node].start_byte < s

\* C28: findNearbyDocstring attaches a doc comment only to the construct that
\* directly follows it: a construct that got a comment from it has no other
\* extracted construct beginning between that comment and its own start
C28_CommentOnlyForNextConstruct ==
  \A i \in DOMAIN RawList :
    LET s == tree[RawList[i].ast_node].start_byte
    IN  (RawList[i].docstring # <<>> /\ LastDocCommentBefore(s) # Npos)
          => ~ConstructBetween(LastDocCommentBefore(s), s)

---------------------------------------------------------------------------
(* The namespace path of an associated comment *)

\* the names of the namespaces and classes that strictly enclose node n,
\* outermost first
RECURSIVE StrictlyEnclosing(_)
StrictlyEnclosing(n) ==
  LET p == tree[n].parent
  IN  IF p = NullNode THEN <<>>
      ELSE StrictlyEnclosing(p)
             \o (IF tree[p].type \in {"namespace_definition", "class_specifier"}
                 THEN OwnScopeName(p) ELSE <<>>)

\* C29: for every comment block attached to a node (its symbol_type is set
\* then) the recorded
\* namespace_path is the "::"-joined names of the namespaces and classes that
\* strictly enclose the node, outermost first, without the node's own name
C29_PathOfEnclosingScopes ==
  phase = "associated" =>
    \A i \in DOMAIN docstring_blocks :
      docstring_blocks[i].symbol_type # "" =>
        docstring_blocks[i].namespace_path
          = JoinScope(StrictlyEnclosing(docstring_blocks[i].associated_node))

====
